---------------------------- MODULE Spec2Model ----------------------------
(***************************************************************************)
(* A model of the jalali package (github.com/mshafiee/jalali): the         *)
(* Gregorian <-> Jalali conversion, the leap rule, month lengths, the      *)
(* JalaliTime value type with its constructor, its comparisons and its     *)
(* instant-based and field-based arithmetic.                               *)
(*                                                                         *)
(* Every operation of the package is a pure function over immutable        *)
(* values.  The state machine is a caller: each action picks the inputs of *)
(* one call from bounded sets, applies the operation as the code computes  *)
(* it and records the call in (op, recv, arg, out).                        *)
(*                                                                         *)
(* Go's int is 64 bits wide and its / and % truncate toward zero; TLC's    *)
(* integers are 32 bits wide and its \div and % take the floor.  Quo and   *)
(* Rem are Go's operators.  Quantities that do not fit 32 bits (Unix       *)
(* seconds and nanoseconds) are kept in mixed radix (days, seconds of the  *)
(* day, nanoseconds); the int64 wrap-around of UnixNano is computed on     *)
(* that representation.                                                    *)
(***************************************************************************)
EXTENDS Integers, Sequences, FiniteSets, TLC

VARIABLES op, recv, arg, out

vars == <<op, recv, arg, out>>

----------------------------------------------------------------------------
(* Go integer arithmetic *)

\* Go's a / b for b > 0: the quotient truncated toward zero.
Quo(a, b) == IF a >= 0 THEN a \div b ELSE -((-a) \div b)

\* Go's a % b for b > 0: the remainder has the sign of a.
Rem(a, b) == a - b * Quo(a, b)

\* The sum of the first n entries of a table (a Go loop  for i := 0; i < n; i++).
RECURSIVE SumFirst(_, _)
SumFirst(tab, n) == IF n <= 0 THEN 0 ELSE tab[n] + SumFirst(tab, n - 1)

----------------------------------------------------------------------------
(* Tables *)

gregorianDaysInMonth == <<31, 28, 31, 30, 31, 30, 31, 31, 30, 31, 30, 31>>

jalaliDaysInMonth == <<31, 31, 31, 31, 31, 31, 30, 30, 30, 30, 30, 29>>

Farvardin == 1
Shahrivar == 6
Bahman == 11
Esfand == 12

----------------------------------------------------------------------------
(* CalendarMath *)

boolToInt(b) == IF b THEN 1 ELSE 0

leapYearsRemainders == {1, 5, 9, 13, 17, 22, 26, 30}

\* The remainder with floored division instead of Go's truncated one.
isLeapJalaliYear_floorMod(year) == (year % 33) \in leapYearsRemainders

isLeapJalaliYear(year) == Rem(year, 33) \in leapYearsRemainders

\* daysInMonth with the leap test of Esfand inverted.
daysInMonth_leapSwapped(year, month) ==
    IF month < Farvardin \/ month > Esfand THEN 0
    ELSE IF month <= Shahrivar THEN 31
    ELSE IF month <= Bahman THEN 30
    ELSE IF isLeapJalaliYear(year) THEN 29 ELSE 30

daysInMonth(year, month) ==
    IF month < Farvardin \/ month > Esfand THEN 0
    ELSE IF month <= Shahrivar THEN 31
    ELSE IF month <= Bahman THEN 30
    ELSE IF isLeapJalaliYear(year) THEN 30 ELSE 29

isValidJalaliDate(year, month, day) ==
    IF year < 1 \/ month < 1 \/ month > 12 \/ day < 1 THEN FALSE
    ELSE IF day > daysInMonth(year, month) THEN FALSE
    ELSE TRUE

\* for i = 0; i < 11 && jDayNo >= jalaliDaysInMonth[i]; i++ { jDayNo -= ... }
\* i is the Go index; the result is <<i, jDayNo>> at loop exit.
RECURSIVE jalaliMonthLoop(_, _)
jalaliMonthLoop(i, jDayNo) ==
    IF i < 11 /\ jDayNo >= jalaliDaysInMonth[i + 1]
    THEN jalaliMonthLoop(i + 1, jDayNo - jalaliDaysInMonth[i + 1])
    ELSE <<i, jDayNo>>

gregorianToJalali(gYear, gMonth, gDay) ==
    LET gy == gYear - 1600
        gm == gMonth - 1
        gd == gDay - 1
        gDayNo0 == 365 * gy + Quo(gy + 3, 4) - Quo(gy + 99, 100) + Quo(gy + 399, 400)
        gDayNo1 == gDayNo0 + SumFirst(gregorianDaysInMonth, gm)
        gDayNo2 == gDayNo1 + boolToInt(gm > 1 /\ ((Rem(gy, 4) = 0 /\ Rem(gy, 100) # 0)
                                                   \/ Rem(gy, 400) = 0))
        gDayNo == gDayNo2 + gd
        jDayNo0 == gDayNo - 79
        jNp == Quo(jDayNo0, 12053)
        jDayNo1 == Rem(jDayNo0, 12053)
        jYear0 == 979 + 33 * jNp + 4 * Quo(jDayNo1, 1461)
        jDayNo2 == Rem(jDayNo1, 1461)
        jYear == IF jDayNo2 >= 366 THEN jYear0 + Quo(jDayNo2 - 1, 365) ELSE jYear0
        jDayNo3 == IF jDayNo2 >= 366 THEN Rem(jDayNo2 - 1, 365) ELSE jDayNo2
        lp == jalaliMonthLoop(0, jDayNo3)
    IN  [year |-> jYear, month |-> lp[1] + 1, day |-> lp[2] + 1]

\* for i = 0; gDayNo >= gregorianDaysInMonth[i]+boolToInt(i == 1 && leap != 0); i++
\* The code has no bound on i: index 12 is a run-time panic, reported as i = -1.
RECURSIVE gregorianMonthLoop(_, _, _)
gregorianMonthLoop(i, gDayNo, leap) ==
    IF i >= 12 THEN <<-1, gDayNo>>
    ELSE LET len == gregorianDaysInMonth[i + 1] + boolToInt(i = 1 /\ leap # 0)
         IN  IF gDayNo >= len THEN gregorianMonthLoop(i + 1, gDayNo - len, leap)
             ELSE <<i, gDayNo>>

jalaliToGregorian(jYear, jMonth, jDay) ==
    LET jy == jYear - 979
        jm == jMonth - 1
        jd == jDay - 1
        jDayNo == 365 * jy + Quo(jy, 33) * 8 + Quo(Rem(jy, 33) + 3, 4)
                  + SumFirst(jalaliDaysInMonth, jm) + jd
        gDayNo0 == jDayNo + 79
        gy0 == 1600 + 400 * Quo(gDayNo0, 146097)
        gDayNo1 == Rem(gDayNo0, 146097)
        big == gDayNo1 >= 36525
        gDayNo2 == gDayNo1 - 1
        gy1 == IF big THEN gy0 + 100 * Quo(gDayNo2, 36524) ELSE gy0
        gDayNo3 == Rem(gDayNo2, 36524)
        gDayNo4 == IF big THEN (IF gDayNo3 >= 365 THEN gDayNo3 + 1 ELSE gDayNo3)
                   ELSE gDayNo1
        leap0 == IF big /\ gDayNo3 < 365 THEN 0 ELSE 1
        gy2 == gy1 + 4 * Quo(gDayNo4, 1461)
        gDayNo5 == Rem(gDayNo4, 1461)
        late == gDayNo5 >= 366
        leap == IF late THEN 0 ELSE leap0
        gy == IF late THEN gy2 + Quo(gDayNo5 - 1, 365) ELSE gy2
        gDayNo6 == IF late THEN Rem(gDayNo5 - 1, 365) ELSE gDayNo5
        lp == gregorianMonthLoop(0, gDayNo6, leap)
    IN  [year |-> gy, month |-> lp[1] + 1, day |-> lp[2] + 1]

----------------------------------------------------------------------------
(* Locations (time.Location).  id is the identity of the Location object   *)
(* (the pointer), name is what Location.String() returns.  A location has  *)
(* either one offset, or two with one transition at the UTC instant        *)
(* (tday, tsec): off before it, off2 from it on.                           *)

Loc(id, name, off, off2, tday, tsec) ==
    [id |-> id, name |-> name, off |-> off, off2 |-> off2, tday |-> tday, tsec |-> tsec]

\* The nil Location pointer (the loc of the zero JalaliTime and of literals
\* without one); String() of a nil Location is "UTC".
NilLoc == Loc("nil", "UTC", 0, 0, 0, 0)

\* time.UTC
UTC == Loc("time.UTC", "UTC", 0, 0, 0, 0)

\* time.FixedZone("UTC", 0): another Location object with the name of time.UTC.
FixedUTC == Loc("time.FixedZone(UTC,0)", "UTC", 0, 0, 0, 0)

\* time.FixedZone("IRDT", 12600), the fixed zone of the tests (+03:30).
FixedIRDT == Loc("time.FixedZone(IRDT,12600)", "IRDT", 12600, 12600, 0, 0)

\* time.FixedZone("IRDT", 16200): a zone with the name of FixedIRDT and the
\* offset of Iran's daylight time (+04:30).
FixedIRDT430 == Loc("time.FixedZone(IRDT,16200)", "IRDT", 16200, 16200, 0, 0)

\* Tehran(): Asia/Tehran around the start of daylight saving time of 1400:
\* +03:30 until 2021-03-21T20:30:00Z (1400/01/02 00:00 local), +04:30 after.
Tehran == Loc("Tehran()", "Asia/Tehran", 12600, 16200, 18707, 73800)

\* time.Local on a host whose zone is Asia/Tehran.
Local == Loc("time.Local", "Local", 12600, 16200, 18707, 73800)

\* time.LoadLocation("America/New_York") around the end of daylight saving
\* time of 2021: -04:00 until 2021-11-07T06:00:00Z (1400/08/16 02:00 local,
\* when the clocks go back to 01:00), -05:00 after.
NewYork == Loc("time.LoadLocation(America/New_York)", "America/New_York",
               -14400, -18000, 18938, 21600)

IsFixed(loc) == loc.off = loc.off2

\* Location.String()
LocString(loc) == loc.name

----------------------------------------------------------------------------
(* time.Time.  An instant is [d, s, ns, loc]: d days since 1970-01-01 UTC, *)
(* s seconds of that day (0..86399), ns nanoseconds, in location loc.      *)

\* <<days, seconds>> with the seconds brought into 0..86399 (floor).
NormDS(d, s) == <<d + (s \div 86400), s % 86400>>

\* Whether the instant <<d1, s1>> is before <<d2, s2>>.
BeforeDS(d1, s1, d2, s2) == d1 < d2 \/ (d1 = d2 /\ s1 < s2)

\* Days from 1970-01-01 to the proleptic Gregorian date; month in 1..12, the
\* day is counted linearly (time.Date normalises a day outside the month).
daysFromCivil(year, month, day) ==
    LET y == IF month <= 2 THEN year - 1 ELSE year
        era == y \div 400
        yoe == y - era * 400
        mp == IF month > 2 THEN month - 3 ELSE month + 9
        doy == (153 * mp + 2) \div 5 + day - 1
        doe == yoe * 365 + (yoe \div 4) - (yoe \div 100) + doy
    IN  era * 146097 + doe - 719468

\* The proleptic Gregorian date of a day count (Time.Date()).
civilFromDays(days) ==
    LET z == days + 719468
        era == z \div 146097
        doe == z - era * 146097
        yoe == (doe - (doe \div 1460) + (doe \div 36524) - (doe \div 146096)) \div 365
        doy == doe - (365 * yoe + (yoe \div 4) - (yoe \div 100))
        mp == (5 * doy + 2) \div 153
        d == doy - ((153 * mp + 2) \div 5) + 1
        m == IF mp < 10 THEN mp + 3 ELSE mp - 9
        y == yoe + era * 400 + (IF m <= 2 THEN 1 ELSE 0)
    IN  [year |-> y, month |-> m, day |-> d]

\* Location.lookup: the offset in force at the UTC instant <<d, s>>.
zoneOffset(loc, d, s) ==
    IF IsFixed(loc) THEN loc.off
    ELSE IF BeforeDS(d, s, loc.tday, loc.tsec) THEN loc.off ELSE loc.off2

\* Whether the UTC instant <<d, s>> lies in the zone period that lookup
\* returned for the instant <<d0, s0>> (start <= utc < end).
inSamePeriod(loc, d0, s0, d, s) ==
    IsFixed(loc) \/ (BeforeDS(d0, s0, loc.tday, loc.tsec) <=> BeforeDS(d, s, loc.tday, loc.tsec))

\* The offset time.Date subtracts from the wall clock reading <<wd, ws>>: the
\* offset found for the reading taken as UTC, unless the instant it gives
\* falls outside the period of that offset; then the offset of that instant.
dateOffset(loc, wd, ws, off0, utc0) ==
    IF off0 # 0 /\ ~inSamePeriod(loc, wd, ws, utc0[1], utc0[2])
    THEN zoneOffset(loc, utc0[1], utc0[2]) ELSE off0

dateOffsetAt(loc, wd, ws, off0) == dateOffset(loc, wd, ws, off0, NormDS(wd, ws - off0))

dateInstant(w, nsec, loc, off) ==
    [d |-> NormDS(w[1], w[2] - off)[1], s |-> NormDS(w[1], w[2] - off)[2],
     ns |-> nsec, loc |-> loc]

dateFromWall(w, nsec, loc) ==
    dateInstant(w, nsec, loc, dateOffsetAt(loc, w[1], w[2], zoneOffset(loc, w[1], w[2])))

\* time.Date with a non-nil location: month, hour, minute and second are
\* normalised, the day is counted on, and the zone offset is subtracted.
TimeDate(year, month, day, hour, min, sec, nsec, loc) ==
    dateFromWall(NormDS(daysFromCivil(year + ((month - 1) \div 12),
                                      ((month - 1) % 12) + 1, day),
                        hour * 3600 + min * 60 + sec),
                 nsec, loc)

\* The wall clock reading of an instant in its location: <<days, seconds>>.
TimeWall(t) == NormDS(t.d, t.s + zoneOffset(t.loc, t.d, t.s))

\* t.Clock(): <<hour, minute, second>> of the wall clock reading of t.
TimeClock(t) ==
    <<TimeWall(t)[2] \div 3600, (TimeWall(t)[2] % 3600) \div 60, TimeWall(t)[2] % 60>>

\* Time.Add for a duration of dsec whole seconds.
TimeAdd(t, dsec) ==
    LET n == NormDS(t.d, t.s + dsec)
    IN  [d |-> n[1], s |-> n[2], ns |-> t.ns, loc |-> t.loc]

addDateFrom(c, w, t, years, months, days) ==
    TimeDate(c.year + years, c.month + months, c.day + days,
             w[2] \div 3600, (w[2] % 3600) \div 60, w[2] % 60, t.ns, t.loc)

addDateWall(w, t, years, months, days) ==
    addDateFrom(civilFromDays(w[1]), w, t, years, months, days)

\* Time.AddDate: the date fields are increased and handed to time.Date with
\* the clock reading and the location of t.
TimeAddDate(t, years, months, days) == addDateWall(TimeWall(t), t, years, months, days)

\* Time.UTC()
TimeUTC(t) == [d |-> t.d, s |-> t.s, ns |-> t.ns, loc |-> UTC]

----------------------------------------------------------------------------
(* 64-bit nanosecond counts.  A count is <<d, s, ns>> = d days + s seconds *)
(* + ns nanoseconds with 0 <= s < 86400 and 0 <= ns < 10^9.                *)

NanosPerSecond == 1000000000

\* 2^64 nanoseconds = 213503 days 84873 s 709551616 ns
Pow64 == <<213503, 84873, 709551616>>

\* 2^63 nanoseconds = 106751 days 85636 s 854775808 ns
Pow63 == <<106751, 85636, 854775808>>

NormNanos(d, s, ns) ==
    <<d + ((s + (ns \div NanosPerSecond)) \div 86400),
      (s + (ns \div NanosPerSecond)) % 86400,
      ns % NanosPerSecond>>

AddNanos(a, b) == NormNanos(a[1] + b[1], a[2] + b[2], a[3] + b[3])

SubNanos(a, b) == NormNanos(a[1] - b[1], a[2] - b[2], a[3] - b[3])

LessNanos(a, b) ==
    \/ a[1] < b[1]
    \/ a[1] = b[1] /\ a[2] < b[2]
    \/ a[1] = b[1] /\ a[2] = b[2] /\ a[3] < b[3]

\* x modulo 2^64, in 0 .. 2^64 - 1.
RECURSIVE Mod64(_)
Mod64(x) ==
    IF x[1] < 0 THEN Mod64(AddNanos(x, Pow64))
    ELSE IF ~LessNanos(x, Pow64) THEN Mod64(SubNanos(x, Pow64))
    ELSE x

\* The int64 value of the count x: x wrapped into -2^63 .. 2^63 - 1.
Wrap64(x) == SubNanos(Mod64(AddNanos(x, Pow63)), Pow63)

----------------------------------------------------------------------------
(* JalaliTime *)

JalaliTime(year, month, day, hour, min, sec, nsec, loc) ==
    [year |-> year, month |-> month, day |-> day, hour |-> hour, min |-> min,
     sec |-> sec, nsec |-> nsec, loc |-> loc]

\* JalaliTime{}: the zero value.
ZeroJalaliTime == JalaliTime(0, 0, 0, 0, 0, 0, 0, NilLoc)

\* A call that does not return: the run-time panic with its message.
Panic(msg) == [panic |-> msg]

IsPanic(v) == DOMAIN v = {"panic"}

\* Date without the check of the day against the month's length.
Date_noDayCheck(year, month, day, hour, min, sec, nsec, loc) ==
    IF year < 1 \/ year > 9999 THEN Panic("year out of range")
    ELSE IF month < Farvardin \/ month > Esfand THEN Panic("invalid month")
    ELSE IF day < 1 \/ day > 31 THEN Panic("day out of range")
    ELSE IF hour < 0 \/ hour > 23 THEN Panic("hour out of range")
    ELSE IF min < 0 \/ min > 59 THEN Panic("minute out of range")
    ELSE IF sec < 0 \/ sec > 59 THEN Panic("second out of range")
    ELSE IF nsec < 0 \/ nsec > 999999999 THEN Panic("nanosecond out of range")
    ELSE JalaliTime(year, month, day, hour, min, sec, nsec, loc)

Date(year, month, day, hour, min, sec, nsec, loc) ==
    IF year < 1 \/ year > 9999 THEN Panic("year out of range")
    ELSE IF month < Farvardin \/ month > Esfand THEN Panic("invalid month")
    ELSE IF day < 1 \/ day > daysInMonth(year, month) THEN Panic("day out of range")
    ELSE IF hour < 0 \/ hour > 23 THEN Panic("hour out of range")
    ELSE IF min < 0 \/ min > 59 THEN Panic("minute out of range")
    ELSE IF sec < 0 \/ sec > 59 THEN Panic("second out of range")
    ELSE IF nsec < 0 \/ nsec > 999999999 THEN Panic("nanosecond out of range")
    ELSE JalaliTime(year, month, day, hour, min, sec, nsec, loc)

jalaliOf(j, w, t) ==
    JalaliTime(j.year, j.month, j.day, w[2] \div 3600, (w[2] % 3600) \div 60, w[2] % 60,
               t.ns, t.loc)

jalaliOfCivil(c, w, t) == jalaliOf(gregorianToJalali(c.year, c.month, c.day), w, t)

jalaliOfWall(w, t) == jalaliOfCivil(civilFromDays(w[1]), w, t)

\* ToJalali: the Gregorian date of t in its location is converted, the clock
\* reading and the location are kept.
ToJalali(t) == jalaliOfWall(TimeWall(t), t)

\* time.Date(gYear, gMonth, gDay, j.hour, j.min, j.sec, j.nsec, loc)
dateOf(g, j, loc) == TimeDate(g.year, g.month, g.day, j.hour, j.min, j.sec, j.nsec, loc)

\* ToGregorian with the date and time read in UTC, whatever the location.
ToGregorian_inUTC(j) == dateOf(jalaliToGregorian(j.year, j.month, j.day), j, UTC)

\* ToGregorian: a nil location is replaced by time.Local.
ToGregorian(j) ==
    dateOf(jalaliToGregorian(j.year, j.month, j.day), j,
           IF j.loc = NilLoc THEN Local ELSE j.loc)

\* The time.Date call of Unix and AddDays, which hand j.loc over as it is:
\* time.Date panics on a nil location.
gDateOf(j) ==
    IF j.loc = NilLoc THEN Panic("time: missing Location in call to Date")
    ELSE dateOf(jalaliToGregorian(j.year, j.month, j.day), j, j.loc)

unixOf(gDate) == IF IsPanic(gDate) THEN gDate ELSE [d |-> gDate.d, s |-> gDate.s]

\* Unix: the seconds since the epoch as [d: days, s: seconds of the day].
Unix(j) == unixOf(gDateOf(j))

nanoOf(utc) == Wrap64(<<utc.d, utc.s, utc.ns>>)

\* UnixNano: utc.UnixNano() is sec*1e9 + nsec computed in int64.
UnixNano(j) == nanoOf(TimeUTC(ToGregorian(j)))

After(j, u) == LessNanos(UnixNano(u), UnixNano(j))

Before(j, u) == LessNanos(UnixNano(j), UnixNano(u))

\* Equal that compares the date and time fields only.
Equal_noZone(j, u) ==
    /\ j.year = u.year
    /\ j.month = u.month
    /\ j.day = u.day
    /\ j.hour = u.hour
    /\ j.min = u.min
    /\ j.sec = u.sec
    /\ j.nsec = u.nsec

Equal(j, u) ==
    /\ j.year = u.year
    /\ j.month = u.month
    /\ j.day = u.day
    /\ j.hour = u.hour
    /\ j.min = u.min
    /\ j.sec = u.sec
    /\ j.nsec = u.nsec
    /\ LocString(j.loc) = LocString(u.loc)

IsZero(j) ==
    j.year = 0 /\ j.month = 0 /\ j.day = 0 /\ j.hour = 0 /\ j.min = 0 /\ j.sec = 0
    /\ j.nsec = 0

\* int((unix2 - unix1) / 86400) on [d, s] pairs: Go's quotient truncates
\* toward zero.
QuoDays(unix1, unix2) ==
    LET dd == unix2.d - unix1.d
        ds == unix2.s - unix1.s
    IN  IF dd > 0 /\ ds < 0 THEN dd - 1
        ELSE IF dd < 0 /\ ds > 0 THEN dd + 1
        ELSE dd

daysOfUnix(unix1, unix2) ==
    IF IsPanic(unix1) THEN unix1
    ELSE IF IsPanic(unix2) THEN unix2
    ELSE QuoDays(unix1, unix2)

\* The body of DaysBetween after the swap: j is the instant taken as earlier.
daysFromTo(j, u) == daysOfUnix(Unix(j), Unix(u))

DaysBetween(j, u) == IF Before(u, j) THEN daysFromTo(u, j) ELSE daysFromTo(j, u)

\* Add for a duration of dsec whole seconds.
Add(j, dsec) == ToJalali(TimeAdd(ToGregorian(j), dsec))

AddMonths(j, n) ==
    LET years == Quo(n, 12)
        months == Rem(n, 12)
        newYear0 == j.year + years
        newMonth0 == j.month + months
        newYear == IF newMonth0 > 12 THEN newYear0 + 1 ELSE newYear0
        newMonth == IF newMonth0 > 12 THEN newMonth0 - 12 ELSE newMonth0
        max == daysInMonth(newYear, newMonth)
        day == IF j.day > max THEN max ELSE j.day
    IN  JalaliTime(newYear, newMonth, day, j.hour, j.min, j.sec, j.nsec, j.loc)

addDaysTo(gDate, n) ==
    IF IsPanic(gDate) THEN gDate ELSE ToJalali(TimeAddDate(gDate, 0, 0, n))

\* AddDays as an increment of the day field, with no conversion.
AddDays_dayField(j, n) ==
    JalaliTime(j.year, j.month, j.day + n, j.hour, j.min, j.sec, j.nsec, j.loc)

AddDays(j, n) == addDaysTo(gDateOf(j), n)

\* for newMonth > 12 { newYear++; newMonth -= 12 }
RECURSIVE monthsDown(_, _)
monthsDown(newYear, newMonth) ==
    IF newMonth > 12 THEN monthsDown(newYear + 1, newMonth - 12)
    ELSE <<newYear, newMonth>>

\* for newMonth < 1 { newYear--; newMonth += 12 }
RECURSIVE monthsUp(_, _)
monthsUp(newYear, newMonth) ==
    IF newMonth < 1 THEN monthsUp(newYear - 1, newMonth + 12)
    ELSE <<newYear, newMonth>>

\* for newDay > maxDays { newDay -= maxDays; newMonth++; ... }
RECURSIVE daysDown(_, _, _)
daysDown(newYear, newMonth, newDay) ==
    LET maxDays == daysInMonth(newYear, newMonth)
    IN  IF newDay > maxDays
        THEN IF newMonth + 1 > 12
             THEN daysDown(newYear + 1, 1, newDay - maxDays)
             ELSE daysDown(newYear, newMonth + 1, newDay - maxDays)
        ELSE <<newYear, newMonth, newDay>>

\* for newDay < 1 { newMonth--; ...; newDay += maxDays }
RECURSIVE daysUp(_, _, _)
daysUp(newYear, newMonth, newDay) ==
    IF newDay < 1
    THEN LET y == IF newMonth - 1 < 1 THEN newYear - 1 ELSE newYear
             m == IF newMonth - 1 < 1 THEN 12 ELSE newMonth - 1
         IN  daysUp(y, m, newDay + daysInMonth(y, m))
    ELSE <<newYear, newMonth, newDay>>

JalaliDuration(years, months, days) == [Years |-> years, Months |-> months, Days |-> days]

\* AddJalaliDuration without the walk that brings the day into the month.
AddJalaliDuration_noDayWalk(j, d) ==
    LET a == monthsUp(monthsDown(j.year + d.Years, j.month + d.Months)[1],
                      monthsDown(j.year + d.Years, j.month + d.Months)[2])
    IN  JalaliTime(a[1], a[2], j.day + d.Days, j.hour, j.min, j.sec, j.nsec, j.loc)

AddJalaliDuration(j, d) ==
    LET a == monthsDown(j.year + d.Years, j.month + d.Months)
        b == monthsUp(a[1], a[2])
        c == daysDown(b[1], b[2], j.day + d.Days)
        e == daysUp(c[1], c[2], c[3])
    IN  JalaliTime(e[1], e[2], e[3], j.hour, j.min, j.sec, j.nsec, j.loc)

SubJalaliDuration(j, d) ==
    AddJalaliDuration(j, JalaliDuration(-d.Years, -d.Months, -d.Days))

----------------------------------------------------------------------------
(* Julian dates.  A Julian date is a float64 number of days; here it is    *)
(* [hd, s, ns]: hd half days plus s seconds plus ns nanoseconds.  The sum  *)
(* jdn + fraction is rounded to the float64 grid: a reading within half a  *)
(* grid step of midnight becomes the next midnight.  Elsewhere the grid    *)
(* step (at most 2^-31 day, 41 microseconds) is not represented.           *)

JulianDay(hd, s, ns) == [hd |-> hd, s |-> s, ns |-> ns]

\* floor(365.25*(year+4716)) + floor(30.6001*(month+1)) + day + b - 1524,
\* after year and month are shifted for January and February.
julianDayCount(year, month, day) ==
    LET y == IF month <= 2 THEN year - 1 ELSE year
        m == IF month <= 2 THEN month + 12 ELSE month
        a == y \div 100
    IN  ((1461 * (y + 4716)) \div 4) + ((306001 * (m + 1)) \div 10000) + day
        + (2 - a + (a \div 4)) - 1524

\* Half the distance between two float64 numbers of the size of a Julian
\* date, in whole nanoseconds: 2^-31 day (40233 ns) for day counts above
\* 2^22, and half of it for each halving of the count.
RECURSIVE halfUlpBelow(_, _, _)
halfUlpBelow(count, top, half) ==
    IF count > top \/ half = 0 THEN half ELSE halfUlpBelow(count, top \div 2, half \div 2)

halfUlpNanos(count) == halfUlpBelow(count, 4194304, 40233)

\* jd := jdn + fraction
julianSum(count, s, ns) ==
    IF s = 86399 /\ NanosPerSecond - ns <= halfUlpNanos(count)
    THEN JulianDay(2 * count + 1, 0, 0)
    ELSE JulianDay(2 * count - 1, s, ns)

\* The error of julianDayNumber, by the field its text names and the value it
\* prints ("invalid day 32 (must be between 1 and 31)"); nil has no field.
julianError(field, value) == [field |-> field, value |-> value]

NilError == julianError("", 0)

\* julianDayNumber with the time of day checked before the date.
julianDayNumber_clockFirst(year, month, day, hour, minute, second, nanosecond) ==
    IF hour < 0 \/ hour > 23
    THEN [err |-> julianError("hour", hour), jd |-> JulianDay(0, 0, 0)]
    ELSE IF minute < 0 \/ minute > 59
    THEN [err |-> julianError("minute", minute), jd |-> JulianDay(0, 0, 0)]
    ELSE IF second < 0 \/ second > 59
    THEN [err |-> julianError("second", second), jd |-> JulianDay(0, 0, 0)]
    ELSE IF nanosecond < 0 \/ nanosecond > 999999999
    THEN [err |-> julianError("nanosecond", nanosecond), jd |-> JulianDay(0, 0, 0)]
    ELSE IF year < -4712
    THEN [err |-> julianError("year", year), jd |-> JulianDay(0, 0, 0)]
    ELSE IF month < 1 \/ month > 12
    THEN [err |-> julianError("month", month), jd |-> JulianDay(0, 0, 0)]
    ELSE IF day < 1 \/ day > 31
    THEN [err |-> julianError("day", day), jd |-> JulianDay(0, 0, 0)]
    ELSE [err |-> NilError,
          jd |-> julianSum(julianDayCount(year, month, day),
                           hour * 3600 + minute * 60 + second, nanosecond)]

\* julianDayNumber: [err, jd]; with an error the number returned is 0.
julianDayNumber(year, month, day, hour, minute, second, nanosecond) ==
    IF year < -4712
    THEN [err |-> julianError("year", year), jd |-> JulianDay(0, 0, 0)]
    ELSE IF month < 1 \/ month > 12
    THEN [err |-> julianError("month", month), jd |-> JulianDay(0, 0, 0)]
    ELSE IF day < 1 \/ day > 31
    THEN [err |-> julianError("day", day), jd |-> JulianDay(0, 0, 0)]
    ELSE IF hour < 0 \/ hour > 23
    THEN [err |-> julianError("hour", hour), jd |-> JulianDay(0, 0, 0)]
    ELSE IF minute < 0 \/ minute > 59
    THEN [err |-> julianError("minute", minute), jd |-> JulianDay(0, 0, 0)]
    ELSE IF second < 0 \/ second > 59
    THEN [err |-> julianError("second", second), jd |-> JulianDay(0, 0, 0)]
    ELSE IF nanosecond < 0 \/ nanosecond > 999999999
    THEN [err |-> julianError("nanosecond", nanosecond), jd |-> JulianDay(0, 0, 0)]
    ELSE [err |-> NilError,
          jd |-> julianSum(julianDayCount(year, month, day),
                           hour * 3600 + minute * 60 + second, nanosecond)]

julianOfCivil(c, s, ns) ==
    julianDayNumber(c.year, c.month, c.day, s \div 3600, (s % 3600) \div 60, s % 60, ns).jd

julianOfWall(w, ns) == julianOfCivil(civilFromDays(w[1]), w[2], ns)

\* JulianDate: the Julian date of the fields of j.ToGregorian(); an error of
\* julianDayNumber is printed and its number returned.
JulianDate(j) == julianOfWall(TimeWall(ToGregorian(j)), ToGregorian(j).ns)

\* The integer part of w days, t seconds and n nanoseconds (t, n of any sign).
truncDays(w, t, n) ==
    LET t2 == IF n < 0 THEN t - 1 ELSE t
        w2 == w + (t2 \div 86400)
    IN  IF w2 >= 0 \/ ((t2 % 86400) = 0 /\ (n % NanosPerSecond) = 0) THEN w2 ELSE w2 + 1

\* int(jd2 - jd1 + plus): Go's conversion truncates toward zero.
julianDiffDays(jd1, jd2, plus) ==
    truncDays((jd2.hd - jd1.hd + 2 * plus) \div 2,
              ((jd2.hd - jd1.hd) % 2) * 43200 + (jd2.s - jd1.s),
              jd2.ns - jd1.ns)

yearDayFrom(yearStart, jd) ==
    julianDiffDays(julianDayNumber(yearStart.year, yearStart.month, yearStart.day,
                                   0, 0, 0, 0).jd, jd, 1)

YearDay(j) == yearDayFrom(jalaliToGregorian(j.year, Farvardin, 1), JulianDate(j))

DaysUntil(j, targetDate) == julianDiffDays(JulianDate(j), JulianDate(targetDate), 0)

----------------------------------------------------------------------------
(* RecurringEvent.  Frequency is a time.Duration of whole seconds, held in *)
(* seconds; int(e.Frequency) is its count of nanoseconds.                  *)

RecurringEvent(StartTime, EndTime, Frequency) ==
    [StartTime |-> StartTime, EndTime |-> EndTime, Frequency |-> Frequency]

\* offset / int(e.Frequency) * int(e.Frequency)
occurrencesSkip(e, offset) ==
    Quo(Quo(offset, NanosPerSecond), e.Frequency) * e.Frequency * NanosPerSecond

\* The local variables of Occurrences: the cursor, the slice, and whether the
\* function has returned.
occurrencesState(currentDate, occurrences, done) ==
    IF IsPanic(currentDate) THEN currentDate
    ELSE [currentDate |-> currentDate, occurrences |-> occurrences, done |-> done]

occurrencesFirst(e, startDate, offset) ==
    IF offset > 0 THEN AddDays(e.StartTime, occurrencesSkip(e, offset)) ELSE startDate

\* Occurrences up to its loop.
occurrencesEnter(e, startDate, endDate) ==
    IF After(e.StartTime, endDate) THEN occurrencesState(startDate, <<>>, TRUE)
    ELSE occurrencesState(occurrencesFirst(e, startDate, DaysUntil(e.StartTime, startDate)),
                          <<>>, FALSE)

\* Whether the cursor falls within the event's start and end times.
occurrencesWithin(e, currentDate) ==
    /\ After(currentDate, e.StartTime) \/ Equal(currentDate, e.StartTime)
    /\ \/ IsZero(e.EndTime)
       \/ Before(currentDate, e.EndTime)
       \/ Equal(currentDate, e.EndTime)

\* One test of the loop condition of Occurrences, and the loop body or the
\* return that follows it.
occurrencesStep(e, endDate, st) ==
    IF Before(st.currentDate, endDate) \/ Equal(st.currentDate, endDate)
    THEN occurrencesState(Add(st.currentDate, e.Frequency),
                          IF occurrencesWithin(e, st.currentDate)
                          THEN Append(st.occurrences, st.currentDate)
                          ELSE st.occurrences,
                          FALSE)
    ELSE occurrencesState(st.currentDate, st.occurrences, TRUE)

----------------------------------------------------------------------------
(* ParseInLocation.  A layout is a sequence of tokens, each a directive     *)
(* ("%Y") or one character of literal text; a value is a sequence of        *)
(* characters.  Text is a sequence of characters throughout.                *)

DigitChars == <<"0", "1", "2", "3", "4", "5", "6", "7", "8", "9">>

IsDigit(c) == \E i \in 1 .. 10 : DigitChars[i] = c

digitValue(c) == (CHOOSE i \in 1 .. 10 : DigitChars[i] = c) - 1

\* The decimal digits of n >= 0.
RECURSIVE digitsOf(_)
digitsOf(n) ==
    IF n < 10 THEN <<DigitChars[n + 1]>>
    ELSE digitsOf(n \div 10) \o <<DigitChars[(n % 10) + 1]>>

RECURSIVE padZero(_, _)
padZero(ds, width) == IF Len(ds) >= width THEN ds ELSE padZero(<<"0">> \o ds, width)

\* fmt.Sprintf("%0<width>d", n); width 1 is "%d".
sprintfD(n, width) ==
    IF n < 0 THEN <<"-">> \o padZero(digitsOf(-n), width - 1)
    ELSE padZero(digitsOf(n), width)

\* strconv.Atoi of a run of digits.
RECURSIVE Atoi(_)
Atoi(ds) ==
    IF Len(ds) = 0 THEN 0
    ELSE 10 * Atoi(SubSeq(ds, 1, Len(ds) - 1)) + digitValue(ds[Len(ds)])

\* The directives the pattern %([YymdHMS]) matches.
Directives == {"%Y", "%y", "%m", "%d", "%H", "%M", "%S"}

\* The text each directive is replaced by.
DigitsGroup == "(\\d+)"

\* re.ReplaceAllStringFunc(layout, ...): the source of the regular expression.
layoutPattern(layout) ==
    [i \in 1 .. Len(layout) |-> IF layout[i] \in Directives THEN DigitsGroup ELSE layout[i]]

\* Whether regexp.MustCompile accepts the source.  Of the literal characters
\* of the layouts here only "(" is syntax: a group that is never closed.
patternCompiles(pattern) == \A i \in 1 .. Len(pattern) : pattern[i] # "("

\* The last index of the run of digits of value from vi on (vi - 1: none).
RECURSIVE digitsEnd(_, _)
digitsEnd(value, vi) ==
    IF vi <= Len(value) /\ IsDigit(value[vi]) THEN digitsEnd(value, vi + 1) ELSE vi - 1

\* A match of pattern from its element pi on against value from vi on:
\* [ok, caps], the captures of the groups in order.  A group takes as many
\* digits as the rest of the pattern allows.
RECURSIVE matchFrom(_, _, _, _)
RECURSIVE matchGroup(_, _, _, _, _)
matchFrom(pattern, pi, value, vi) ==
    IF pi > Len(pattern) THEN [ok |-> TRUE, caps |-> <<>>]
    ELSE IF pattern[pi] = DigitsGroup
         THEN matchGroup(pattern, pi, value, vi, digitsEnd(value, vi))
    ELSE IF vi <= Len(value) /\ value[vi] = pattern[pi]
         THEN matchFrom(pattern, pi + 1, value, vi + 1)
    ELSE [ok |-> FALSE, caps |-> <<>>]

matchGroup(pattern, pi, value, vi, ve) ==
    IF ve < vi THEN [ok |-> FALSE, caps |-> <<>>]
    ELSE LET rest == matchFrom(pattern, pi + 1, value, ve + 1)
         IN  IF rest.ok THEN [ok |-> TRUE, caps |-> <<SubSeq(value, vi, ve)>> \o rest.caps]
             ELSE matchGroup(pattern, pi, value, vi, ve - 1)

\* re.FindStringSubmatch(value): the leftmost match, or nil (the empty
\* sequence).  matches[0], the text matched, is never read; it is held as
\* the value.
RECURSIVE findFrom(_, _, _)
findFrom(pattern, value, start) ==
    IF start > Len(value) + 1 THEN <<>>
    ELSE LET m == matchFrom(pattern, 1, value, start)
         IN  IF m.ok THEN <<value>> \o m.caps ELSE findFrom(pattern, value, start + 1)

FindStringSubmatch(pattern, value) == findFrom(pattern, value, 1)

\* What ParseInLocation returns: the JalaliTime and the error (nil: <<>>).
parseResult(j, err) == [j |-> j, err |-> err]

\* ParseInLocation from the validation of the date on.
parseFields(year, month, day, hour, min, sec, loc) ==
    IF ~isValidJalaliDate(year, month, day)
    THEN parseResult(ZeroJalaliTime,
                     <<"invalid Jalali date: ">> \o sprintfD(year, 1) \o <<"/">>
                     \o sprintfD(month, 2) \o <<"/">> \o sprintfD(day, 2))
    ELSE parseResult(JalaliTime(year, month, day, hour, min, sec, 0, loc), <<>>)

parseMatches(matches, loc) ==
    IF Len(matches) < 7
    THEN parseResult(ZeroJalaliTime, <<"unable to parse value using the provided layout">>)
    ELSE parseFields(Atoi(matches[2]), Atoi(matches[3]), Atoi(matches[4]),
                     Atoi(matches[5]), Atoi(matches[6]), Atoi(matches[7]), loc)

\* The capture at the place of the directive d in the layout (none: empty).
captureOf(layout, matches, d) ==
    IF \E i \in 1 .. 6 : SelectSeq(layout, LAMBDA t : t \in Directives)[i] = d
    THEN matches[1 + CHOOSE i \in 1 .. 6 :
                         SelectSeq(layout, LAMBDA t : t \in Directives)[i] = d]
    ELSE <<>>

\* ParseInLocation with each field read from the capture of its own
\* directive.
ParseInLocation_byLetter(layout, value, loc) ==
    IF ~patternCompiles(layoutPattern(layout))
    THEN Panic("regexp: Compile: error parsing regexp: missing closing )")
    ELSE IF Len(FindStringSubmatch(layoutPattern(layout), value)) < 7
    THEN parseMatches(<<>>, loc)
    ELSE parseFields(
            Atoi(captureOf(layout, FindStringSubmatch(layoutPattern(layout), value), "%Y")),
            Atoi(captureOf(layout, FindStringSubmatch(layoutPattern(layout), value), "%m")),
            Atoi(captureOf(layout, FindStringSubmatch(layoutPattern(layout), value), "%d")),
            Atoi(captureOf(layout, FindStringSubmatch(layoutPattern(layout), value), "%H")),
            Atoi(captureOf(layout, FindStringSubmatch(layoutPattern(layout), value), "%M")),
            Atoi(captureOf(layout, FindStringSubmatch(layoutPattern(layout), value), "%S")),
            loc)

ParseInLocation(layout, value, loc) ==
    IF ~patternCompiles(layoutPattern(layout))
    THEN Panic("regexp: Compile: error parsing regexp: missing closing )")
    ELSE parseMatches(FindStringSubmatch(layoutPattern(layout), value), loc)

\* Parse: ParseInLocation in time.Local.
Parse(layout, value) == ParseInLocation(layout, value, Local)

----------------------------------------------------------------------------
(* Format.  A Go string is a sequence of bytes (0 .. 255); text written in  *)
(* characters is turned into bytes by Bytes, text written in code points    *)
(* (runes) by utf8String.                                                   *)

\* The printable ASCII characters, from the space (byte 32) on; the grave
\* accent (byte 96) is held by its name.
AsciiChars ==
    << " ", "!", "\"", "#", "$", "%", "&", "'", "(", ")", "*", "+", ",", "-", ".", "/",
       "0", "1", "2", "3", "4", "5", "6", "7", "8", "9", ":", ";", "<", "=", ">", "?",
       "@", "A", "B", "C", "D", "E", "F", "G", "H", "I", "J", "K", "L", "M", "N", "O",
       "P", "Q", "R", "S", "T", "U", "V", "W", "X", "Y", "Z", "[", "\\", "]", "^", "_",
       "grave", "a", "b", "c", "d", "e", "f", "g", "h", "i", "j", "k", "l", "m", "n", "o",
       "p", "q", "r", "s", "t", "u", "v", "w", "x", "y", "z", "{", "|", "}", "~" >>

Byte(c) == 31 + CHOOSE i \in 1 .. Len(AsciiChars) : AsciiChars[i] = c

Bytes(cs) == [i \in 1 .. Len(cs) |-> Byte(cs[i])]

\* The UTF-8 encoding of a code point below 65536.
utf8(cp) ==
    IF cp < 128 THEN <<cp>>
    ELSE IF cp < 2048 THEN <<192 + (cp \div 64), 128 + (cp % 64)>>
    ELSE <<224 + (cp \div 4096), 128 + ((cp \div 64) % 64), 128 + (cp % 64)>>

RECURSIVE utf8String(_)
utf8String(runes) ==
    IF Len(runes) = 0 THEN <<>> ELSE utf8(Head(runes)) \o utf8String(Tail(runes))

\* The code points of the entries of FaJalaliMonthName (entry 0 is empty).
FaJalaliMonthRunes ==
    << <<>>,
       <<1601, 1585, 1608, 1585, 1583, 1740, 1606>>,
       <<1575, 1585, 1583, 1740, 1576, 1607, 1588, 1578>>,
       <<1582, 1585, 1583, 1575, 1583>>,
       <<1578, 1740, 1585>>,
       <<1605, 1585, 1583, 1575, 1583>>,
       <<1588, 1607, 1585, 1740, 1608, 1585>>,
       <<1605, 1607, 1585>>,
       <<1570, 1576, 1575, 1606>>,
       <<1570, 1584, 1585>>,
       <<1583, 1740>>,
       <<1576, 1607, 1605, 1606>>,
       <<1575, 1587, 1601, 1606, 1583>> >>

\* FaJalaliMonthName as the strings the source file holds; the Go index m is
\* the index m + 1 here.
FaJalaliMonthName == [i \in 1 .. Len(FaJalaliMonthRunes) |-> utf8String(FaJalaliMonthRunes[i])]

\* The "%b" case of Format: name[:3] takes the first three bytes.
abbreviate(month) ==
    IF Len(FaJalaliMonthName[month + 1]) >= 3
    THEN SubSeq(FaJalaliMonthName[month + 1], 1, 3)
    ELSE FaJalaliMonthName[month + 1]

\* FaWeekDays, from Sunday (Go index 0, index 1 here) on.
FaWeekDays ==
    [i \in 1 .. 7 |-> utf8String(
        << <<1740, 1705, 1588, 1606, 1576, 1607>>,
           <<1583, 1608, 1588, 1606, 1576, 1607>>,
           <<1587, 1607, 8204, 1588, 1606, 1576, 1607>>,
           <<1670, 1607, 1575, 1585, 1588, 1606, 1576, 1607>>,
           <<1662, 1606, 1580, 8204, 1588, 1606, 1576, 1607>>,
           <<1580, 1605, 1593, 1607>>,
           <<1588, 1606, 1576, 1607>> >>[i])]

\* Weekday: the day of the week of the wall clock reading of gDate, 0 being
\* Sunday; 1970-01-01 was a Thursday.
Weekday(j) ==
    IF j.loc = NilLoc THEN Panic("time: missing Location in call to Date")
    ELSE (TimeWall(gDateOf(j))[1] + 4) % 7

\* The offset that Zone returns.
ZoneOffset(j) == zoneOffset(ToGregorian(j).loc, ToGregorian(j).d, ToGregorian(j).s)

\* Location.String() in characters.
locStringChars(loc) ==
    CASE LocString(loc) = "UTC" -> <<"U", "T", "C">>
      [] LocString(loc) = "IRDT" -> <<"I", "R", "D", "T">>
      [] LocString(loc) = "Local" -> <<"L", "o", "c", "a", "l">>
      [] LocString(loc) = "Asia/Tehran" ->
            <<"A", "s", "i", "a", "/", "T", "e", "h", "r", "a", "n">>
      [] LocString(loc) = "America/New_York" ->
            <<"A", "m", "e", "r", "i", "c", "a", "/", "N", "e", "w", "_", "Y", "o", "r", "k">>

\* The "%z" case: sign, hours and minutes of the offset.
formatOffset(offset) ==
    Bytes(<<IF offset < 0 THEN "-" ELSE "+">>
          \o sprintfD((IF offset < 0 THEN -offset ELSE offset) \div 3600, 2)
          \o sprintfD(((IF offset < 0 THEN -offset ELSE offset) % 3600) \div 60, 2))

\* Whether the case of the specifier "%" c panics: an index outside the table
\* of the names, or Weekday's time.Date on a nil location.
specifierPanics(j, c) ==
    \/ c \in {Byte("B"), Byte("b")} /\ ~(j.month \in 0 .. 12)
    \/ c = Byte("w") /\ j.loc = NilLoc

\* A switch without the cases "%%" and "%n": the default case writes them
\* as they are.
formatSpecifier_defaultOnly(j, c) == <<Byte("%"), c>>

\* What the case of the specifier "%" c writes.
formatSpecifier(j, c) ==
    CASE c = Byte("n") -> <<10>>
      [] c = Byte("%") -> Bytes(<<"%">>)
      [] c = Byte("Y") -> Bytes(sprintfD(j.year, 4))
      [] c = Byte("y") -> Bytes(sprintfD(Rem(j.year, 100), 2))
      [] c = Byte("m") -> Bytes(sprintfD(j.month, 2))
      [] c = Byte("B") -> FaJalaliMonthName[j.month + 1]
      [] c = Byte("b") -> abbreviate(j.month)
      [] c = Byte("d") -> Bytes(sprintfD(j.day, 2))
      [] c = Byte("H") -> Bytes(sprintfD(j.hour, 2))
      [] c = Byte("M") -> Bytes(sprintfD(j.min, 2))
      [] c = Byte("S") -> Bytes(sprintfD(j.sec, 2))
      [] c = Byte("p") -> IF j.hour < 12 THEN utf8String(<<1589, 1576, 1581>>)
                          ELSE utf8String(<<1593, 1589, 1585>>)
      [] c = Byte("w") -> FaWeekDays[Weekday(j) + 1]
      [] c = Byte("z") -> formatOffset(ZoneOffset(j))
      [] c = Byte("Z") -> IF j.loc # NilLoc THEN Bytes(locStringChars(j.loc)) ELSE <<>>
      [] c = Byte("R") -> Bytes(sprintfD(j.hour, 2) \o <<":">> \o sprintfD(j.min, 2))
      [] c = Byte("T") -> Bytes(sprintfD(j.hour, 2) \o <<":">> \o sprintfD(j.min, 2)
                                \o <<":">> \o sprintfD(j.sec, 2))
      [] OTHER -> <<Byte("%"), c>>

\* The loop of Format from the byte i of the layout on, builder being what
\* has been written.
RECURSIVE formatFrom(_, _, _, _)
formatFrom(j, layout, i, builder) ==
    IF i > Len(layout) THEN builder
    ELSE IF layout[i] = Byte("%") /\ i + 1 <= Len(layout)
    THEN IF specifierPanics(j, layout[i + 1])
         THEN Panic("runtime error")
         ELSE formatFrom(j, layout, i + 2, builder \o formatSpecifier(j, layout[i + 1]))
    ELSE formatFrom(j, layout, i + 1, Append(builder, layout[i]))

Format(j, layout) == formatFrom(j, layout, 1, <<>>)

\* Whether Format panics on the layout.
RECURSIVE formatPanicsFrom(_, _, _)
formatPanicsFrom(j, layout, i) ==
    /\ i <= Len(layout)
    /\ IF layout[i] = Byte("%") /\ i + 1 <= Len(layout)
       THEN specifierPanics(j, layout[i + 1]) \/ formatPanicsFrom(j, layout, i + 2)
       ELSE formatPanicsFrom(j, layout, i + 1)

----------------------------------------------------------------------------
(* AddYears and AddDate *)

IsLeapJalaliYear(j) == isLeapJalaliYear(j.year)

\* AddYears without the adjustment of the day.
AddYears_dayKept(j, n) ==
    IF j.year + n < 1 THEN ZeroJalaliTime
    ELSE JalaliTime(j.year + n, j.month, j.day, j.hour, j.min, j.sec, j.nsec, j.loc)

\* AddYears: the day 30 of Esfand becomes 29 when the year of j is leap.
AddYears(j, n) ==
    IF j.year + n < 1 THEN ZeroJalaliTime
    ELSE JalaliTime(j.year + n, j.month,
                    IF IsLeapJalaliYear(j) /\ j.month = 12 /\ j.day = 30 THEN 29 ELSE j.day,
                    j.hour, j.min, j.sec, j.nsec, j.loc)

\* AddDate: j.AddYears(years).AddMonths(months).AddDays(days)
AddDate(j, years, months, days) == AddDays(AddMonths(AddYears(j, years), months), days)

----------------------------------------------------------------------------
(* Bounds of the model *)

\* Half-width of each window of years around the years of interest.
YearSpan == 2

\* Years on both sides of zero for the leap rule (two 33-year cycles).
LeapSpan == 70

\* Windows of Jalali years: the low end of the domain, both sides of the
\* conversion's anchor year 979, the present, and the high end.
JalaliYears ==
    (1 .. 1 + YearSpan) \cup (978 - YearSpan .. 979 + YearSpan)
    \cup (1399 - YearSpan .. 1400 + YearSpan) \cup (9999 - YearSpan .. 9999)

GregorianYears ==
    (623 .. 623 + YearSpan) \cup (1599 - YearSpan .. 1600 + YearSpan)
    \cup (2020 - YearSpan .. 2021 + YearSpan) \cup (10620 - YearSpan .. 10620)

\* The length of a Gregorian month (time.Date's calendar).
gregorianIsLeap(y) == (y % 4 = 0) /\ ((y % 100 # 0) \/ (y % 400 = 0))

gregorianMonthLen(y, m) == gregorianDaysInMonth[m] + boolToInt(m = 2 /\ gregorianIsLeap(y))

----------------------------------------------------------------------------
(* The caller *)

\* Before any call, and between calls: no call is recorded.
Init ==
    /\ op = "idle"
    /\ recv = <<>>
    /\ arg = <<>>
    /\ out = <<>>

\* The call has returned and its result has been consumed.  Calls start from
\* the idle caller only: the operations keep no state between calls.
Return ==
    /\ op # "idle"
    /\ op' = "idle"
    /\ recv' = <<>>
    /\ arg' = <<>>
    /\ out' = <<>>

\* A call of jalaliToGregorian followed by gregorianToJalali on its result.
CallJalaliRoundTrip ==
    /\ op = "idle"
    /\ \E y \in JalaliYears, m \in 1 .. 12 :
      \E d \in 1 .. daysInMonth(y, m) :
        LET g == jalaliToGregorian(y, m, d)
        IN  /\ op' = "jalaliToGregorian"
            /\ recv' = [year |-> y, month |-> m, day |-> d]
            /\ arg' = g
            /\ out' = gregorianToJalali(g.year, g.month, g.day)

\* A call of gregorianToJalali followed by jalaliToGregorian on its result.
CallGregorianRoundTrip ==
    /\ op = "idle"
    /\ \E y \in GregorianYears, m \in 1 .. 12 :
      \E d \in 1 .. gregorianMonthLen(y, m) :
        LET j == gregorianToJalali(y, m, d)
        IN  /\ op' = "gregorianToJalali"
            /\ recv' = [year |-> y, month |-> m, day |-> d]
            /\ arg' = j
            /\ out' = jalaliToGregorian(j.year, j.month, j.day)

CallIsLeapJalaliYear ==
    /\ op = "idle"
    /\ \E y \in (-LeapSpan .. LeapSpan) \cup JalaliYears :
        /\ op' = "isLeapJalaliYear"
        /\ recv' = y
        /\ arg' = <<>>
        /\ out' = isLeapJalaliYear(y)

CallDaysInMonth ==
    /\ op = "idle"
    /\ \E y \in (-LeapSpan .. LeapSpan) \cup JalaliYears, m \in -2 .. 15 :
        /\ op' = "daysInMonth"
        /\ recv' = y
        /\ arg' = m
        /\ out' = daysInMonth(y, m)

NextCal ==
    \/ CallJalaliRoundTrip
    \/ CallGregorianRoundTrip
    \/ CallIsLeapJalaliYear
    \/ CallDaysInMonth
    \/ Return

SpecCal == Init /\ [][NextCal]_vars

----------------------------------------------------------------------------
(* Inputs of the JalaliTime operations *)

\* Largest number of months AddMonths is called with (both signs).
MaxMonths == 25

\* Largest number of days AddDays is called with (both signs).
MaxDays == 3

\* Largest components of a JalaliDuration (both signs).
MaxDurMonths == 13
MaxDurDays == 32

Locations == {NilLoc, UTC, FixedUTC, FixedIRDT, Tehran, Local}

FixedLocations == {l \in Locations : l # NilLoc /\ IsFixed(l)}

\* Times of day <<hour, min, sec, nsec>>.
Clocks == {<<0, 0, 0, 0>>, <<0, 30, 0, 0>>, <<12, 34, 56, 1>>, <<23, 59, 59, 999999999>>}

\* The years in which UnixNano passes 2^63 - 1 (2262-04-11T23:47:16Z).
WrapYears == 1641 - YearSpan .. 1641 + YearSpan

\* The instants Date builds from the given years, months, days, clocks and
\* locations: the valid instants.
Instants(Ys, Ms, Ds, Cs, Ls) ==
    {j \in {Date(y, m, d, c[1], c[2], c[3], c[4], l) :
                y \in Ys, m \in Ms, d \in Ds, c \in Cs, l \in Ls} : ~IsPanic(j)}

\* Arguments of Date on both sides of every bound it checks.
CallDate ==
    /\ op = "idle"
    /\ \E y \in {0, 1, 1399, 1400, 9999, 10000}, m \in {0, 1, 7, 12, 13},
          d \in {0, 1, 29, 30, 31, 32}, h \in {-1, 0, 23, 24}, mi \in {-1, 0, 59, 60},
          sc \in {-1, 0, 59, 60}, ns \in {-1, 0, 999999999, 1000000000},
          l \in {NilLoc, Tehran} :
        /\ op' = "Date"
        /\ recv' = JalaliTime(y, m, d, h, mi, sc, ns, l)
        /\ arg' = <<>>
        /\ out' = Date(y, m, d, h, mi, sc, ns, l)

NextDate == CallDate \/ Return

SpecDate == Init /\ [][NextDate]_vars

CallAddMonths ==
    /\ op = "idle"
    /\ \E j \in Instants({1, 2, 1399, 1400, 9999}, 1 .. 12, {1, 29, 30, 31},
                         {<<12, 34, 56, 1>>}, {NilLoc, Tehran}),
          n \in -MaxMonths .. MaxMonths :
        /\ op' = "AddMonths"
        /\ recv' = j
        /\ arg' = n
        /\ out' = AddMonths(j, n)

DurDays == (-MaxDurDays .. MaxDurDays) \cup {-400, -366, -365, 365, 366, 400}

CallAddJalaliDuration ==
    /\ op = "idle"
    /\ \E j \in Instants({1, 1399, 1400}, {1, 6, 7, 12}, {1, 29, 30, 31},
                         {<<12, 34, 56, 1>>}, {Tehran}),
          dy \in -1 .. 1, dm \in -MaxDurMonths .. MaxDurMonths, dd \in DurDays :
        /\ op' = "AddJalaliDuration"
        /\ recv' = j
        /\ arg' = JalaliDuration(dy, dm, dd)
        /\ out' = AddJalaliDuration(j, JalaliDuration(dy, dm, dd))

\* Receivers around the change of offset of Asia/Tehran (1400/01/02 00:00),
\* at the conversion's anchor year and at both ends of the domain.
CallAddDays ==
    /\ op = "idle"
    /\ \E j \in Instants({1, 978, 979, 1399, 1400, 9999}, {1, 12}, {1, 2, 3, 29, 30},
                         Clocks, Locations),
          n \in -MaxDays .. MaxDays :
        /\ op' = "AddDays"
        /\ recv' = j
        /\ arg' = n
        /\ out' = AddDays(j, n)

NextArith == CallAddMonths \/ CallAddJalaliDuration \/ CallAddDays \/ Return

SpecArith == Init /\ [][NextArith]_vars

\* Times of day that differ by the offsets of the locations, so that two
\* readings in different locations can be the same moment.
CmpClocks == {<<0, 0, 0, 0>>, <<3, 30, 0, 0>>, <<4, 30, 0, 0>>, <<23, 59, 59, 999999999>>}

CallDaysBetween ==
    /\ op = "idle"
    /\ \E j \in Instants(JalaliYears \cup WrapYears, {1, 12}, {1, 29},
                         {<<0, 0, 0, 0>>, <<12, 34, 56, 1>>}, {UTC, FixedIRDT, Tehran}) :
        \E u \in Instants({j.year - 1, j.year, j.year + 1}, {1, 12}, {1, 29},
                          {<<0, 0, 0, 0>>, <<12, 34, 56, 1>>}, {j.loc, UTC}) :
            /\ op' = "DaysBetween"
            /\ recv' = j
            /\ arg' = u
            /\ out' = DaysBetween(j, u)

CallCompare ==
    /\ op = "idle"
    /\ \E a \in Instants({1399, 1400}, {1, 12}, {1, 2, 29, 30}, CmpClocks, Locations) :
        \E b \in Instants({a.year}, {a.month}, {1, 2, 29, 30}, CmpClocks, Locations) :
            /\ op' = "Compare"
            /\ recv' = a
            /\ arg' = b
            /\ out' = [Equal |-> Equal(a, b), Before |-> Before(a, b),
                       After |-> After(a, b),
                       sameNano |-> UnixNano(a) = UnixNano(b)]

NextCmp == CallDaysBetween \/ CallCompare \/ Return

SpecCmp == Init /\ [][NextCmp]_vars

----------------------------------------------------------------------------
(* Calls of the day counts: YearDay, DaysBetween and DaysUntil *)

\* Times of day at both ends of the day, and next to the midnight that a
\* Julian date is rounded to.
DayClocks ==
    {<<0, 0, 0, 0>>, <<12, 34, 56, 1>>, <<23, 59, 59, 999979883>>,
     <<23, 59, 59, 999999999>>}

CallYearDay ==
    /\ op = "idle"
    /\ \E j \in Instants({1, 978, 979, 1399, 1400, 9999}, 1 .. 12, {1, 29, 30, 31},
                         DayClocks, {NilLoc, UTC, Tehran}) :
        /\ op' = "YearDay"
        /\ recv' = j
        /\ arg' = <<>>
        /\ out' = YearDay(j)

\* Times of day a whole number of seconds and half a second apart.
SpanClocks == {<<0, 0, 0, 0>>, <<0, 0, 0, 500000000>>, <<12, 34, 56, 0>>}

\* Both orders of DaysBetween and of DaysUntil on one pair of instants.
CallDaysSpan ==
    /\ op = "idle"
    /\ \E j, u \in Instants({1400, 1641, 1642}, {1, 12}, {1, 2},
                            SpanClocks, {UTC, FixedIRDT, Tehran}) :
        /\ op' = "DaysSpan"
        /\ recv' = j
        /\ arg' = u
        /\ out' = [between |-> DaysBetween(j, u), betweenBack |-> DaysBetween(u, j),
                   until |-> DaysUntil(j, u), untilBack |-> DaysUntil(u, j)]

NextView == CallYearDay \/ CallDaysSpan \/ Return

SpecView == Init /\ [][NextView]_vars

----------------------------------------------------------------------------
(* Calls of Occurrences.  The call is entered in one step; every test of   *)
(* the loop condition is a step of its own.                                *)

\* The longest slice a call is followed to.
MaxOccurrences == 8

\* The first days of 1400 at midnight in a zone.
GridDays(loc) == Instants({1400}, {1}, 1 .. 5, {<<0, 0, 0, 0>>}, {loc})

\* Daily and two-daily events at the start of 1400, in UTC and across the
\* start of daylight saving time in Tehran.
GridEvents(loc) ==
    {RecurringEvent(s, n, f) :
        s \in Instants({1400}, {1}, {1, 2}, {<<0, 0, 0, 0>>}, {loc}),
        n \in {ZeroJalaliTime} \cup Instants({1400}, {1}, {3, 5}, {<<0, 0, 0, 0>>}, {loc}),
        f \in {86400, 172800}}

\* The days on both sides of the instant at which UnixNano passes 2^63 - 1
\* (1641/01/22 23:47:16 UTC), at midnight.
WrapDays == Instants({1641}, {1}, {20, 21, 23, 24}, {<<0, 0, 0, 0>>}, {UTC})

\* The night the clocks go back in New York, by the half hour.
FallBackTimes ==
    Instants({1400}, {8}, {15}, {<<23, 30, 0, 0>>}, {NewYork})
    \cup Instants({1400}, {8}, {16}, {<<0, 30, 0, 0>>, <<1, 30, 0, 0>>, <<3, 30, 0, 0>>},
                  {NewYork})

\* Hourly events of that night.
FallBackEvents ==
    {RecurringEvent(s, n, 3600) :
        s \in Instants({1400}, {8}, {15}, {<<23, 30, 0, 0>>}, {NewYork}),
        n \in Instants({1400}, {8}, {16}, {<<0, 30, 0, 0>>, <<3, 30, 0, 0>>}, {NewYork})}

\* The first days of the year 1, before the anchor year of the conversion.
EarlyDays == Instants({1}, {1}, 1 .. 3, {<<0, 0, 0, 0>>}, {UTC})

\* The calls: <<event, startDate, endDate>>.
OccurrencesCalls ==
    UNION {GridEvents(l) \X GridDays(l) \X GridDays(l) : l \in {UTC, Tehran}}
    \cup ({RecurringEvent(s, ZeroJalaliTime, 86400) : s \in WrapDays} \X WrapDays \X WrapDays)
    \cup (FallBackEvents \X FallBackTimes \X FallBackTimes)
    \cup ({RecurringEvent(s, ZeroJalaliTime, 86400) : s \in EarlyDays} \X EarlyDays \X EarlyDays)

CallOccurrences ==
    /\ op = "idle"
    /\ \E c \in OccurrencesCalls :
        /\ op' = "Occurrences"
        /\ recv' = c[1]
        /\ arg' = <<c[2], c[3]>>
        /\ out' = occurrencesEnter(c[1], c[2], c[3])

OccurrencesLoop ==
    /\ op = "Occurrences"
    /\ ~IsPanic(out)
    /\ ~out.done
    /\ Len(out.occurrences) < MaxOccurrences
    /\ out' = occurrencesStep(recv, arg[2], out)
    /\ UNCHANGED <<op, recv, arg>>

OccurrencesReturn ==
    /\ op = "Occurrences"
    /\ IsPanic(out) \/ out.done
    /\ op' = "idle"
    /\ recv' = <<>>
    /\ arg' = <<>>
    /\ out' = <<>>

NextOcc == CallOccurrences \/ OccurrencesLoop \/ OccurrencesReturn

SpecOcc == Init /\ [][NextOcc]_vars

----------------------------------------------------------------------------
(* Calls of the conversions between JalaliTime and time.Time *)

\* Times of day in and around the hour that Tehran skips on 1400/01/02 and
\* the hour that New York repeats on 1400/08/16.
ConvClocks ==
    {<<0, 0, 0, 0>>, <<0, 30, 0, 0>>, <<1, 30, 0, 0>>, <<12, 34, 56, 1>>,
     <<23, 59, 59, 999999999>>}

CallToGregorian ==
    /\ op = "idle"
    /\ \E j \in Instants({1, 1399, 1400}, {1, 8, 12}, {1, 2, 16, 29}, ConvClocks,
                         {NilLoc, UTC, FixedIRDT, Tehran, NewYork}) :
        /\ op' = "ToGregorian"
        /\ recv' = j
        /\ arg' = <<>>
        /\ out' = ToGregorian(j)

\* The Gregorian instants time.Date builds around the same dates.
CallToJalali ==
    /\ op = "idle"
    /\ \E gy \in {622, 2021}, gm \in {3, 11}, gd \in {7, 20, 21, 22}, c \in ConvClocks,
          l \in {UTC, FixedIRDT, Tehran, NewYork} :
        /\ op' = "ToJalali"
        /\ recv' = TimeDate(gy, gm, gd, c[1], c[2], c[3], c[4], l)
        /\ arg' = <<>>
        /\ out' = ToJalali(TimeDate(gy, gm, gd, c[1], c[2], c[3], c[4], l))

NextConv == CallToGregorian \/ CallToJalali \/ Return

SpecConv == Init /\ [][NextConv]_vars

----------------------------------------------------------------------------
(* Calls of ParseInLocation *)

\* The directives of a layout in the order year, month, day, hour, minute,
\* second, and that order reversed.
StandardLetters == <<"%Y", "%m", "%d", "%H", "%M", "%S">>

ReversedLetters == <<"%S", "%M", "%H", "%d", "%m", "%Y">>

\* Rows of six directives: every row of "%y" and "%d", and the two above.
LetterRows == [1 .. 6 -> {"%y", "%d"}] \cup {StandardLetters, ReversedLetters}

\* Layouts of three shapes with the directives of a row: the full one,
\* "%Y/%m/%d %H:%M:%S"; one without its seconds, "%Y/%m/%d %H:%M"; and one
\* with an opening bracket, "%Y/%m/%d (%H:%M".
layoutOf(shape, r) ==
    IF shape = "full"
    THEN <<r[1], "/", r[2], "/", r[3], " ", r[4], ":", r[5], ":", r[6]>>
    ELSE IF shape = "short"
    THEN <<r[1], "/", r[2], "/", r[3], " ", r[4], ":", r[5]>>
    ELSE <<r[1], "/", r[2], "/", r[3], " ", "(", r[4], ":", r[5]>>

\* The value that shows the six numbers, the date with the separator sep.
valueOf(shape, sep, n) ==
    sprintfD(n[1], 4) \o <<sep>> \o sprintfD(n[2], 2) \o <<sep>> \o sprintfD(n[3], 2)
    \o (IF shape = "paren" THEN <<" ", "(">> ELSE <<" ">>)
    \o sprintfD(n[4], 2) \o <<":">> \o sprintfD(n[5], 2) \o <<":">> \o sprintfD(n[6], 2)

\* The times of day of the values: one of the day, and one whose hour, minute
\* and second are past the ends of theirs.
ParseClocks == {<<23, 59, 58>>, <<24, 60, 61>>}

CallParseInLocation ==
    /\ op = "idle"
    /\ \E r \in LetterRows, shape \in {"full", "short", "paren"}, sep \in {"/", "-"},
          y \in {0, 1399, 1400, 10000}, m \in {0, 12, 13}, d \in {0, 29, 30, 31},
          c \in ParseClocks :
        /\ op' = "ParseInLocation"
        /\ recv' = <<>>
        /\ arg' = [layout |-> layoutOf(shape, r),
                   value |-> valueOf(shape, sep, <<y, m, d>> \o c),
                   loc |-> Tehran,
                   numbers |-> <<y, m, d>> \o c]
        /\ out' = ParseInLocation(layoutOf(shape, r), valueOf(shape, sep, <<y, m, d>> \o c),
                                  Tehran)

\* Parse with the usual layout.
CallParse ==
    /\ op = "idle"
    /\ \E y \in {0, 1400, 10000}, m \in {1, 12, 13}, d \in {1, 30}, c \in ParseClocks :
        /\ op' = "Parse"
        /\ recv' = <<>>
        /\ arg' = [layout |-> layoutOf("full", StandardLetters),
                   value |-> valueOf("full", "/", <<y, m, d>> \o c),
                   loc |-> Local,
                   numbers |-> <<y, m, d>> \o c]
        /\ out' = Parse(layoutOf("full", StandardLetters),
                        valueOf("full", "/", <<y, m, d>> \o c))

NextParse == CallParseInLocation \/ CallParse \/ Return

SpecParse == Init /\ [][NextParse]_vars

----------------------------------------------------------------------------
(* Calls of Format *)

\* The layouts of the calls, in characters: the two directives of the month
\* names, each other directive, text without directives, unknown
\* directives, "%%" before a letter and a "%" at the end.
FormatLayouts ==
    { <<"%", "b">>, <<"%", "B">>, <<"%", "d", " ", "%", "b", " ", "%", "Y">>,
      <<"%", "Y", "/", "%", "m", "/", "%", "d">>, <<"%", "y", "%", "n">>,
      <<"%", "H", ":", "%", "M", ":", "%", "S">>, <<"%", "R", " ", "%", "p">>,
      <<"%", "T", " ", "%", "z">>, <<"%", "w">>, <<"%", "Z">>,
      <<"1", "0", "0", "%", "%">>, <<"%", "Q", "%">>, <<"%", "%", "Y">>,
      <<"a", "%", "%", "%", "n", "%", "q", "b", "%">> }

\* The instants formatted: days of each month of 1400 before and after noon,
\* and the zero JalaliTime.
FormatTimes ==
    {Date(1400, m, d, h, 5, 9, 0, loc) :
        m \in Farvardin .. Esfand, d \in {1, 29}, h \in {0, 13}, loc \in {NilLoc, UTC, Tehran}}
    \cup {ZeroJalaliTime}

CallFormat ==
    /\ op = "idle"
    /\ \E j \in FormatTimes, layout \in FormatLayouts :
        /\ op' = "Format"
        /\ recv' = j
        /\ arg' = Bytes(layout)
        /\ out' = Format(j, Bytes(layout))

NextFormat == CallFormat \/ Return

SpecFormat == Init /\ [][NextFormat]_vars

----------------------------------------------------------------------------
(* Calls of AddYears and AddDate *)

\* Days at the start and the end of months in leap years (1399, 1403), common
\* years (1400, 9999) and the first year.
YearsTimes ==
    Instants({1, 1399, 1400, 1403, 9999}, {Farvardin, Bahman, Esfand}, {1, 29, 30, 31},
             {<<0, 0, 0, 0>>, <<23, 59, 59, 999999999>>}, {NilLoc, UTC, Tehran})

CallAddYears ==
    /\ op = "idle"
    /\ \E j \in YearsTimes, n \in {-1401, -1400, -1399, -4, -1, 0, 1, 4, 5} :
        /\ op' = "AddYears"
        /\ recv' = j
        /\ arg' = n
        /\ out' = AddYears(j, n)

\* Days of years on both sides of 979, the anchor year of the conversion, and
\* of 1399 and 1400.
DateTimes ==
    Instants({1, 978, 979, 1399, 1400}, {Farvardin, Esfand}, {1, 29, 30},
             {<<12, 34, 56, 1>>}, {UTC, FixedIRDT, Tehran})

CallAddDate ==
    /\ op = "idle"
    /\ \E j \in DateTimes, years \in {0, 1}, months \in {0, 1}, days \in {0, 1} :
        /\ op' = "AddDate"
        /\ recv' = j
        /\ arg' = <<years, months, days>>
        /\ out' = AddDate(j, years, months, days)

NextYears == CallAddYears \/ CallAddDate \/ Return

SpecYears == Init /\ [][NextYears]_vars

----------------------------------------------------------------------------
(* Calls of julianDayNumber *)

\* Arguments on both sides of each bound that julianDayNumber checks.
CallJulianDayNumber ==
    /\ op = "idle"
    /\ \E year \in {-4713, -4712, 2021}, month \in {0, 1, 2, 12, 13}, day \in {0, 1, 31, 32},
          hour \in {-1, 0, 23, 24}, minute \in {-1, 0, 59, 60}, second \in {-1, 0, 59, 60},
          nanosecond \in {-1, 0, 999999999, 1000000000} :
        /\ op' = "julianDayNumber"
        /\ recv' = <<>>
        /\ arg' = <<year, month, day, hour, minute, second, nanosecond>>
        /\ out' = julianDayNumber(year, month, day, hour, minute, second, nanosecond)

NextJulian == CallJulianDayNumber \/ Return

SpecJulian == Init /\ [][NextJulian]_vars

----------------------------------------------------------------------------
(* Calls of Before, After and Equal over the supported years *)

\* The first and the last days of the years at the ends of the supported
\* domain, of 1400, and of the years on both sides of the end of the int64
\* range of UnixNano, in zones with one offset, two of them of one name.
OrderTimes(Ys) ==
    Instants(Ys, {Farvardin, Esfand}, {1, 29},
             {<<0, 0, 0, 0>>, <<23, 59, 59, 999999999>>},
             {UTC, FixedIRDT, FixedIRDT430})

CallOrder ==
    /\ op = "idle"
    /\ \E a \in OrderTimes({1, 1400, 1641, 1642, 9999}), b \in OrderTimes({1400, 1642}) :
        /\ op' = "Order"
        /\ recv' = a
        /\ arg' = b
        /\ out' = [Equal |-> Equal(a, b), Before |-> Before(a, b), After |-> After(a, b)]

NextOrder == CallOrder \/ Return

SpecOrder == Init /\ [][NextOrder]_vars

----------------------------------------------------------------------------
(* Calls of AddJalaliDuration and AddDays with the same number of days *)

\* Days of years on both sides of 979, the anchor year of the conversion, of
\* a leap year and a common year, and of the years at the ends of the domain.
DayArithTimes ==
    Instants({1, 978, 979, 1399, 1400, 9999}, {Farvardin, Esfand}, {1, 29, 30},
             {<<12, 34, 56, 1>>}, {UTC, FixedIRDT})

CallDayArith ==
    /\ op = "idle"
    /\ \E j \in DayArithTimes, n \in {-366, -31, -1, 0, 1, 31, 366} :
        /\ op' = "DayArith"
        /\ recv' = j
        /\ arg' = n
        /\ out' = [byFields |-> AddJalaliDuration(j, JalaliDuration(0, 0, n)),
                   byInstant |-> AddDays(j, n),
                   back |-> SubJalaliDuration(AddJalaliDuration(j, JalaliDuration(0, 0, n)),
                                              JalaliDuration(0, 0, n))]

NextDayArith == CallDayArith \/ Return

SpecDayArith == Init /\ [][NextDayArith]_vars

----------------------------------------------------------------------------
(* Claims *)

\* C1: gregorianToJalali and jalaliToGregorian are exact inverses over the
\* supported domain: converting a valid Jalali date (year 1..9999) to
\* Gregorian and back returns it, and converting a valid Gregorian date
\* (year 623..10620) to Jalali and back returns it.
C1_RoundTripInverse ==
    /\ (op = "jalaliToGregorian" => out = recv)
    /\ (op = "gregorianToJalali" => out = recv)

\* C2: isLeapJalaliYear(year) is true exactly when year is positive and its
\* remainder modulo 33 is one of 1, 5, 9, 13, 17, 22, 26, 30; it is false for
\* every year <= 0; 1399 is leap and 1400 is not.
C2_LeapRule ==
    op = "isLeapJalaliYear" =>
        /\ out <=> (recv > 0 /\ (recv % 33) \in {1, 5, 9, 13, 17, 22, 26, 30})
        /\ (recv = 1399 => out)
        /\ (recv = 1400 => ~out)

\* C2 witness: a negative year whose floored remainder is in the table (-32)
\* was tested and found not leap.
C2_NegativeYearNotLeap ==
    op = "isLeapJalaliYear" /\ recv < 0 /\ (recv % 33) = 1 /\ out = FALSE

\* C3: daysInMonth returns 31 for months 1..6, 30 for months 7..11, for month
\* 12 30 in a leap year and 29 otherwise, and 0 for a month outside 1..12.
C3_DaysInMonth ==
    op = "daysInMonth" =>
        out = IF arg \in 1 .. 6 THEN 31
              ELSE IF arg \in 7 .. 11 THEN 30
              ELSE IF arg = 12 THEN (IF isLeapJalaliYear(recv) THEN 30 ELSE 29)
              ELSE 0

\* C3 witness: Esfand of a leap year was asked for and has 30 days.
C3_LeapEsfand ==
    op = "daysInMonth" /\ arg = 12 /\ isLeapJalaliYear(recv) /\ out = 30

\* C4: for every Jalali year y in 1..9998 and a fixed-offset zone, DaysBetween
\* of (y, Farvardin 1, 00:00:00) and (y+1, Farvardin 1, 00:00:00) is 366 when
\* isLeapJalaliYear(y) and 365 otherwise.
C4_YearLength ==
    (/\ op = "DaysBetween"
     /\ IsFixed(recv.loc)
     /\ recv.month = 1 /\ recv.day = 1
     /\ recv.hour = 0 /\ recv.min = 0 /\ recv.sec = 0 /\ recv.nsec = 0
     /\ arg = [recv EXCEPT !.year = recv.year + 1])
    => out = IF isLeapJalaliYear(recv.year) THEN 366 ELSE 365

\* Whether Date's arguments (recorded in recv) are all in range.
DateArgsInRange ==
    /\ 1 <= recv.year /\ recv.year <= 9999
    /\ 1 <= recv.month /\ recv.month <= 12
    /\ 1 <= recv.day /\ recv.day <= daysInMonth(recv.year, recv.month)
    /\ 0 <= recv.hour /\ recv.hour <= 23
    /\ 0 <= recv.min /\ recv.min <= 59
    /\ 0 <= recv.sec /\ recv.sec <= 59
    /\ 0 <= recv.nsec /\ recv.nsec <= 999999999

\* C5: Date accepts its arguments exactly when year is in 1..9999, month in
\* 1..12, day in 1..daysInMonth(year, month), hour in 0..23, minute and
\* second in 0..59 and nanosecond in 0..999999999; when it accepts, the
\* instant it returns carries all eight arguments unchanged.
C5_DateAcceptsExactly ==
    op = "Date" =>
        /\ ~IsPanic(out) <=> DateArgsInRange
        /\ DateArgsInRange => out = recv

\* C5 witness: day 30 of Esfand of a leap year was accepted.
C5_LeapDayAccepted ==
    op = "Date" /\ ~IsPanic(out) /\ recv.month = 12 /\ recv.day = 30

\* C6: when an argument of Date is out of range the failure is reported to
\* the caller as a recoverable error; construction never panics.
C6_DateNeverPanics == op = "Date" => ~IsPanic(out)

\* C7: for every valid instant and every integer n of either sign,
\* AddMonths(n) returns a month in 1..12 and a day in 1..daysInMonth of the
\* result, a month count 12*year + month exactly n more than the receiver's,
\* the day min(original day, length of the new month), and the receiver's
\* hour, minute, second, nanosecond and zone.
C7_AddMonths ==
    op = "AddMonths" =>
        /\ out.month \in 1 .. 12
        /\ out.day \in 1 .. daysInMonth(out.year, out.month)
        /\ 12 * out.year + out.month = 12 * recv.year + recv.month + arg
        /\ out.day = IF recv.day < daysInMonth(out.year, out.month)
                     THEN recv.day ELSE daysInMonth(out.year, out.month)
        /\ out.hour = recv.hour /\ out.min = recv.min /\ out.sec = recv.sec
        /\ out.nsec = recv.nsec /\ out.loc = recv.loc

\* C8: for every valid instant and every JalaliDuration with components of
\* any sign, AddJalaliDuration returns a month in 1..12 and a day in
\* 1..daysInMonth of the result, with the receiver's hour, minute, second,
\* nanosecond and zone; a zero duration returns the receiver unchanged.
C8_AddJalaliDuration ==
    op = "AddJalaliDuration" =>
        /\ out.month \in 1 .. 12
        /\ out.day \in 1 .. daysInMonth(out.year, out.month)
        /\ out.hour = recv.hour /\ out.min = recv.min /\ out.sec = recv.sec
        /\ out.nsec = recv.nsec /\ out.loc = recv.loc
        /\ (arg = JalaliDuration(0, 0, 0) => out = recv)

\* C8 witness: thirteen months forward and 400 days back were added and the
\* day walk went back into an earlier year.
C8_WalkedBackAYear ==
    /\ op = "AddJalaliDuration"
    /\ arg.Months = 13 /\ arg.Days = -400
    /\ out.year < recv.year

\* C9: AddDays is instant-based: for every valid instant j and integer n,
\* j.AddDays(n) equals j.Add(n * 24h), also when the zone's offset changes
\* between j and the result.
C9_AddDaysIsAdd24h ==
    op = "AddDays" => out = Add(recv, arg * 86400)

\* C9 amended: j.AddDays(n) equals j.Add(n * 24h) when j's zone is non-nil
\* and has one fixed UTC offset.
C9_AddDaysIsAdd24hFixedZone ==
    (op = "AddDays" /\ recv.loc # NilLoc /\ IsFixed(recv.loc))
    => out = Add(recv, arg * 86400)

\* C9 witness: days were added across a month end in a non-nil fixed-offset
\* zone.
C9_AddedDaysAcrossMonth ==
    /\ op = "AddDays" /\ recv.loc # NilLoc /\ IsFixed(recv.loc)
    /\ arg # 0
    /\ out.month # recv.month

InstantOf(j) == <<ToGregorian(j).d, ToGregorian(j).s, ToGregorian(j).ns>>

\* The whole 86400-second days between the instants of recv and arg.
WholeDaysApart ==
    IF LessNanos(InstantOf(arg), InstantOf(recv))
    THEN SubNanos(InstantOf(recv), InstantOf(arg))[1]
    ELSE SubNanos(InstantOf(arg), InstantOf(recv))[1]

\* C14: for all valid instants a and b, a.DaysBetween(b) = b.DaysBetween(a),
\* the value is never negative, and it is the number of whole 86400-second
\* days between the two absolute instants.
C14_DaysBetweenSymmetric ==
    op = "DaysSpan" =>
        /\ out.between = out.betweenBack
        /\ out.between >= 0
        /\ out.between = WholeDaysApart

\* C15: for valid instants a and b in the same fixed-offset zone,
\* a.DaysUntil(b) = -(b.DaysUntil(a)); it is >= 0 when b is not before a and
\* <= 0 when b is not after a; and its magnitude equals a.DaysBetween(b).
C15_DaysUntilSigned ==
    (op = "DaysSpan" /\ recv.loc = arg.loc /\ IsFixed(recv.loc)) =>
        /\ out.until = -out.untilBack
        /\ (~LessNanos(InstantOf(arg), InstantOf(recv)) => out.until >= 0)
        /\ (~LessNanos(InstantOf(recv), InstantOf(arg)) => out.until <= 0)
        /\ (IF out.until < 0 THEN -out.until ELSE out.until) = out.between

\* The days of the months of the year of recv before its month.
RECURSIVE DaysBeforeMonth(_, _)
DaysBeforeMonth(year, month) ==
    IF month <= 1 THEN 0
    ELSE DaysBeforeMonth(year, month - 1) + daysInMonth(year, month - 1)

\* C17: for every valid instant, YearDay() is the sum of daysInMonth(year, k)
\* for k < month, plus day, whatever the time of day; it lies in 1..366, and
\* in 1..365 in a year that is not leap.
C17_YearDayOrdinal ==
    op = "YearDay" =>
        /\ out = DaysBeforeMonth(recv.year, recv.month) + recv.day
        /\ out \in 1 .. (IF isLeapJalaliYear(recv.year) THEN 366 ELSE 365)

\* C11: for every event with positive Frequency and every query range, each
\* instant returned by Occurrences(rangeStart, rangeEnd) is not before
\* rangeStart and not after rangeEnd; nothing is returned when rangeStart is
\* after rangeEnd.
C11_OccurrencesInsideRange ==
    (op = "Occurrences" /\ ~IsPanic(out)) =>
        \A i \in 1 .. Len(out.occurrences) :
            /\ ~Before(out.occurrences[i], arg[1])
            /\ ~After(out.occurrences[i], arg[2])

\* Whether the call is one of those C12 is about, with rangeEnd k Frequencies
\* after StartTime.
OccurrencesAligned(k) ==
    /\ arg[1] = recv.StartTime
    /\ IsZero(recv.EndTime) \/ ~Before(recv.EndTime, arg[2])
    /\ recv.Frequency > 0 /\ recv.Frequency % 86400 = 0
    /\ arg[2] = IF k = 0 THEN recv.StartTime ELSE Add(recv.StartTime, k * recv.Frequency)

\* C12: when rangeStart equals the event's StartTime, EndTime is zero or not
\* before rangeEnd, Frequency is a positive whole-day multiple and rangeEnd is
\* StartTime + k * Frequency, Occurrences returns exactly the k + 1 instants
\* StartTime + i * Frequency for i = 0..k, in that order.
C12_OccurrencesComplete ==
    (op = "Occurrences" /\ ~IsPanic(out) /\ out.done) =>
        \A k \in 0 .. MaxOccurrences - 2 :
            OccurrencesAligned(k) =>
                out.occurrences =
                    [i \in 1 .. k + 1 |->
                        IF i = 1 THEN recv.StartTime
                        ELSE Add(recv.StartTime, (i - 1) * recv.Frequency)]

\* Whether the loop step taken in the state moves the cursor strictly later:
\* either it returns, or the instant of the cursor after it is later than the
\* instant of the cursor before it.
OccurrencesStepAdvances(st) ==
    st.done \/ LessNanos(InstantOf(out.currentDate), InstantOf(st.currentDate))

\* C13: for every event whose Frequency is positive and every pair of valid
\* range bounds, Occurrences terminates, because each loop step moves the
\* cursor strictly later until it passes rangeEnd: in every state of a call
\* that has not returned, the next test of the loop either returns or leaves
\* the cursor at a later instant.  A step that leaves the cursor where it was
\* is repeated for ever.
C13_OccurrencesTerminates ==
    (op = "Occurrences" /\ ~IsPanic(out) /\ ~out.done) =>
        OccurrencesStepAdvances(occurrencesStep(recv, arg[2], out))

\* Whether ToGregorian returned the time of day and the zone of recv.
GregorianKeepsClock ==
    /\ TimeClock(out) = <<recv.hour, recv.min, recv.sec>>
    /\ out.ns = recv.nsec
    /\ out.loc = recv.loc

\* Whether ToJalali returned the time of day and the zone of recv.
JalaliKeepsClock ==
    /\ <<out.hour, out.min, out.sec>> = TimeClock(recv)
    /\ out.nsec = recv.ns
    /\ out.loc = recv.loc

\* C16: for every valid JalaliTime j with a zone, j.ToGregorian() has the
\* same hour, minute, second, nanosecond and zone as j, and for every
\* Gregorian instant t, ToJalali(t) has the same hour, minute, second,
\* nanosecond and zone as t.
C16_ConversionKeepsClock ==
    /\ (op = "ToGregorian" /\ recv.loc # NilLoc) => GregorianKeepsClock
    /\ op = "ToJalali" => JalaliKeepsClock

\* The wall clock reading <<days, seconds>> of the fields of recv.
RecvReading ==
    NormDS(daysFromCivil(jalaliToGregorian(recv.year, recv.month, recv.day).year,
                         jalaliToGregorian(recv.year, recv.month, recv.day).month,
                         jalaliToGregorian(recv.year, recv.month, recv.day).day),
           recv.hour * 3600 + recv.min * 60 + recv.sec)

\* Whether some instant has the reading w in the zone loc.
ReadingExists(loc, w) ==
    \E off \in {loc.off, loc.off2} :
        zoneOffset(loc, NormDS(w[1], w[2] - off)[1], NormDS(w[1], w[2] - off)[2]) = off

\* C16 amended: for every valid JalaliTime j with a zone in which the date
\* and time of day of j exist (they always do in a fixed-offset zone),
\* j.ToGregorian() has the hour, minute, second, nanosecond and zone of j;
\* and for every Gregorian instant t, ToJalali(t) has those of t.
C16_ConversionKeepsExistingClock ==
    /\ (op = "ToGregorian" /\ recv.loc # NilLoc /\ ReadingExists(recv.loc, RecvReading))
       => GregorianKeepsClock
    /\ op = "ToJalali" => JalaliKeepsClock

\* C16 witness: a reading of the afternoon after the clocks of Tehran went
\* forward was converted and kept its hour in the zone's later offset.
C16_TehranAfternoonKept ==
    /\ op = "ToGregorian"
    /\ recv.loc = Tehran /\ recv.year = 1400 /\ recv.month = 1 /\ recv.day = 2
    /\ recv.hour = 12
    /\ TimeClock(out)[1] = 12
    /\ zoneOffset(out.loc, out.d, out.s) = 16200

\* The layout with its directives replaced, in order, by those of the row.
RECURSIVE WithLetters(_, _)
WithLetters(layout, row) ==
    IF Len(layout) = 0 THEN <<>>
    ELSE IF Head(layout) \in Directives
         THEN <<Head(row)>> \o WithLetters(Tail(layout), Tail(row))
    ELSE <<Head(layout)>> \o WithLetters(Tail(layout), row)

ParseMustFail ==
    \/ Len(SelectSeq(arg.layout, LAMBDA t : t \in Directives)) < 6
    \/ \E i \in 1 .. Len(arg.value) : arg.value[i] = "-"
    \/ ~isValidJalaliDate(arg.numbers[1], arg.numbers[2], arg.numbers[3])

\* C19: ParseInLocation fails with a non-nil error and returns the zero
\* JalaliTime whenever the layout yields fewer than six numeric captures from
\* the input, or the captured (year, month, day) is not a valid Jalali date;
\* in the second case the error text is "invalid Jalali date: Y/MM/DD" with
\* the values captured.
C19_ParseFailsWithError ==
    (op = "ParseInLocation" /\ ParseMustFail) =>
        /\ ~IsPanic(out)
        /\ out.err # <<>>
        /\ out.j = ZeroJalaliTime
        /\ (/\ Len(SelectSeq(arg.layout, LAMBDA t : t \in Directives)) = 6
            /\ \A i \in 1 .. Len(arg.value) : arg.value[i] # "-")
           => out.err = <<"invalid Jalali date: ">> \o sprintfD(arg.numbers[1], 1)
                        \o <<"/">> \o sprintfD(arg.numbers[2], 2)
                        \o <<"/">> \o sprintfD(arg.numbers[3], 2)

\* C20: for every month 1..12 the directive %b emits the first three
\* characters (not the first three bytes) of the Persian name of the month
\* that %B emits, or the whole name when it has fewer than three characters.
C20_AbbreviationIsThreeCharacters ==
    (op = "Format" /\ arg = Bytes(<<"%", "b">>) /\ recv.month \in Farvardin .. Esfand) =>
        /\ Format(recv, Bytes(<<"%", "B">>)) = utf8String(FaJalaliMonthRunes[recv.month + 1])
        /\ out = IF Len(FaJalaliMonthRunes[recv.month + 1]) < 3
                 THEN utf8String(FaJalaliMonthRunes[recv.month + 1])
                 ELSE utf8String(SubSeq(FaJalaliMonthRunes[recv.month + 1], 1, 3))

\* The letters that follow "%" in the directives Format supports, "%%" and
\* "%n" apart.
ValueSpecifiers ==
    {Byte(c) : c \in {"Y", "y", "m", "B", "b", "d", "H", "M", "S", "p", "w", "z", "Z", "R", "T"}}

\* Whether the layout, read from the left in units of two characters at each
\* "%", has no directive that stands for a value of the instant.
RECURSIVE IsPlainLayout(_)
IsPlainLayout(layout) ==
    IF Len(layout) = 0 THEN TRUE
    ELSE IF Head(layout) = Byte("%") /\ Len(layout) >= 2
    THEN layout[2] \notin ValueSpecifiers /\ IsPlainLayout(Tail(Tail(layout)))
    ELSE IsPlainLayout(Tail(layout))

\* The text C21 describes for such a layout.
RECURSIVE PlainText(_)
PlainText(layout) ==
    IF Len(layout) = 0 THEN <<>>
    ELSE IF Head(layout) = Byte("%") /\ Len(layout) >= 2
    THEN (IF layout[2] = Byte("%") THEN <<Byte("%")>>
          ELSE IF layout[2] = Byte("n") THEN <<10>>
          ELSE <<Byte("%"), layout[2]>>) \o PlainText(Tail(Tail(layout)))
    ELSE <<Head(layout)>> \o PlainText(Tail(layout))

\* C21: Format scans the layout left to right and consumes directives as
\* units of two characters: every character outside a directive is copied
\* unchanged, "%" followed by an unsupported character is emitted as both
\* characters, "%%" emits one "%", "%n" emits a newline, and a "%" that is the
\* last character of the layout is emitted literally; "%%Y" yields "%Y" and
\* not the year.
C21_FormatScansInPairs ==
    op = "Format" =>
        /\ IsPlainLayout(arg) => out = PlainText(arg)
        /\ arg = Bytes(<<"%", "%", "Y">>) => out = Bytes(<<"%", "Y">>)

\* C21 witness: the layout "a%%%n%qb%" was formatted, to "a%", a newline,
\* "%qb%".
C21_MixedLayoutFormatted ==
    /\ op = "Format"
    /\ arg = Bytes(<<"a", "%", "%", "%", "n", "%", "q", "b", "%">>)
    /\ out = Bytes(<<"a", "%">>) \o <<10>> \o Bytes(<<"%", "q", "b", "%">>)

C30_ZeroYearsIsIdentity ==
    /\ (op = "AddYears" /\ arg = 0) => out = recv
    /\ (op = "AddDate" /\ arg = <<0, 0, 0>> /\ recv.loc # NilLoc /\ IsFixed(recv.loc)) =>
           <<out.year, out.month, out.day>> = <<recv.year, recv.month, recv.day>>

\* The instant dsec seconds after the instant of j.
InstantAfter(j, dsec) == AddNanos(InstantOf(j), <<0, dsec, 0>>)

\* Whether o is on the grid of the event recv: k Frequencies after StartTime
\* for some k >= 0, as the instant or as what Add returns.
OnOccurrenceGrid(o) ==
    \E k \in 0 .. 2 * MaxOccurrences :
        \/ InstantOf(o) = InstantAfter(recv.StartTime, k * recv.Frequency)
        \/ o = IF k = 0 THEN recv.StartTime ELSE Add(recv.StartTime, k * recv.Frequency)

\* C23: when Frequency is a positive whole-day multiple, every instant
\* returned by Occurrences equals StartTime + k * Frequency for some integer
\* k >= 0, for every rangeStart.
C23_OccurrencesOnGrid ==
    (op = "Occurrences" /\ ~IsPanic(out) /\ recv.Frequency > 0 /\ recv.Frequency % 86400 = 0) =>
        \A i \in 1 .. Len(out.occurrences) : OnOccurrenceGrid(out.occurrences[i])

\* C24: the sequence returned by Occurrences is strictly increasing in time
\* with consecutive elements exactly Frequency apart; every element o
\* satisfies StartTime <= o and, when EndTime is not the zero value,
\* o <= EndTime; and the result is empty whenever StartTime is after rangeEnd.
C24_OccurrencesOrdered ==
    (op = "Occurrences" /\ ~IsPanic(out)) =>
        /\ \A i \in 1 .. Len(out.occurrences) - 1 :
               InstantOf(out.occurrences[i + 1])
                   = InstantAfter(out.occurrences[i], recv.Frequency)
        /\ \A i \in 1 .. Len(out.occurrences) :
               /\ ~LessNanos(InstantOf(out.occurrences[i]), InstantOf(recv.StartTime))
               /\ IsZero(recv.EndTime)
                  \/ ~LessNanos(InstantOf(recv.EndTime), InstantOf(out.occurrences[i]))
        /\ LessNanos(InstantOf(arg[2]), InstantOf(recv.StartTime)) => out.occurrences = <<>>

\* The fields of the arguments of julianDayNumber in their order, and whether
\* the argument i of the call is outside the bounds C25 gives for it.
JulianFields == <<"year", "month", "day", "hour", "minute", "second", "nanosecond">>

JulianArgOutside(i) ==
    CASE i = 1 -> arg[1] < -4712
      [] i = 2 -> arg[2] \notin 1 .. 12
      [] i = 3 -> arg[3] \notin 1 .. 31
      [] i = 4 -> arg[4] \notin 0 .. 23
      [] i \in {5, 6} -> arg[i] \notin 0 .. 59
      [] i = 7 -> arg[7] \notin 0 .. 999999999

\* C25: julianDayNumber returns (0, error) naming the offending field
\* whenever an argument is outside its coarse bounds, reporting the first
\* violated field in the order year, month, day, hour, minute, second,
\* nanosecond; for arguments within the bounds it returns no error, also when
\* the day exceeds the real length of the month.
C25_JulianDayNumberErrors ==
    op = "julianDayNumber" =>
        /\ \A i \in 1 .. 7 :
               (JulianArgOutside(i) /\ \A k \in 1 .. i - 1 : ~JulianArgOutside(k)) =>
                   /\ out.err = julianError(JulianFields[i], arg[i])
                   /\ out.jd = JulianDay(0, 0, 0)
        /\ (\A i \in 1 .. 7 : ~JulianArgOutside(i)) => out.err = NilError

\* C25 witness: February 31 was accepted, and counted as the second of March.
C25_FebruaryThirtyFirst ==
    /\ op = "julianDayNumber"
    /\ arg = <<2021, 2, 31, 0, 0, 0, 0>>
    /\ out.err = NilError
    /\ out.jd = julianDayNumber(2021, 3, 3, 0, 0, 0, 0).jd

\* The fields of an instant in the order of their weight.
FieldsOf(j) == <<j.year, j.month, j.day, j.hour, j.min, j.sec, j.nsec>>

\* Whether the sequence x of numbers is lexicographically smaller than y.
LexLess(x, y) ==
    \E i \in 1 .. Len(x) : x[i] < y[i] /\ \A k \in 1 .. i - 1 : x[k] = y[k]

\* C26: for all valid instants a and b with years in 1..9999 in the same
\* fixed-offset zone, a.Before(b) holds exactly when the fields of a are
\* lexicographically smaller than those of b, and a.After(b) exactly when
\* they are larger.
C26_OrderIsChronological ==
    (op = "Order" /\ recv.loc = arg.loc /\ IsFixed(recv.loc)) =>
        /\ out.Before <=> LexLess(FieldsOf(recv), FieldsOf(arg))
        /\ out.After <=> LexLess(FieldsOf(arg), FieldsOf(recv))

\* C27: for all valid instants a and b, if a.Equal(b) is true then
\* a.Before(b) and a.After(b) are both false, also when the two zones have
\* the same name and different UTC offsets.
C27_EqualExcludesOrder ==
    (op = "Order" /\ out.Equal) => (~out.Before /\ ~out.After)

\* C28: every JalaliTime that Parse or ParseInLocation returns with a nil
\* error has its year in 1..9999, month in 1..12, day in
\* 1..daysInMonth(year, month), hour in 0..23, minute in 0..59 and second in
\* 0..59.
C28_ParsedIsValid ==
    (op \in {"Parse", "ParseInLocation"} /\ ~IsPanic(out) /\ out.err = <<>>) =>
        /\ out.j.year \in 1 .. 9999
        /\ out.j.month \in 1 .. 12
        /\ out.j.day \in 1 .. daysInMonth(out.j.year, out.j.month)
        /\ out.j.hour \in 0 .. 23
        /\ out.j.min \in 0 .. 59
        /\ out.j.sec \in 0 .. 59

\* C29: for every valid instant j in a fixed-offset zone and every integer n
\* whose result stays in years 1..9999, j.AddJalaliDuration({0, 0, n}) and
\* j.AddDays(n) return the same year, month, day and time of day, and
\* j.AddJalaliDuration({0, 0, n}).SubJalaliDuration({0, 0, n}) returns j.
C29_DayArithmeticAgrees ==
    (op = "DayArith" /\ out.byFields.year \in 1 .. 9999) =>
        /\ FieldsOf(out.byInstant) = FieldsOf(out.byFields)
        /\ out.back = recv

=============================================================================
